---- MODULE Spec2Model ----
(***************************************************************************)
(* WordPress publisher for a note-taking application: the frontmatter     *)
(* codec (extractContent, updateFrontmatter), the Markdown transducer     *)
(* (markdownToHtml) and the publish workflow (quickPublishFile,           *)
(* publishNote) that uses them.                                           *)
(*                                                                         *)
(* Text is a sequence of one-character strings, so that the regular       *)
(* expressions of the source are modelled by what they match, character   *)
(* by character.                                                          *)
(***************************************************************************)
EXTENDS Integers, Sequences, FiniteSets, TLC

(***************************************************************************)
(* Character classes of the regular expressions.                          *)
(***************************************************************************)
NL == "\n"

\* the backtick character, named because a string literal cannot hold it
Backtick == "BACKTICK"

LowerChars ==
  {"a", "b", "c", "d", "e", "f", "g", "h", "i", "j", "k", "l", "m",
   "n", "o", "p", "q", "r", "s", "t", "u", "v", "w", "x", "y", "z"}

UpperChars == {"A", "B", "C", "T", "X"}

Digits == {"0", "1", "2", "3", "4", "5", "6", "7", "8", "9"}

\* \w
WordChars == LowerChars \cup UpperChars \cup Digits \cup {"_"}

\* \s
Whitespace == {" ", "\t", NL}

DigitChar(k) == <<"0", "1", "2", "3", "4", "5", "6", "7", "8", "9">>[k + 1]

(***************************************************************************)
(* Matching helpers.  A match attempt at position i of s yields           *)
(* [ok, end, out]: whether the pattern matches there, the position after  *)
(* the match, and the replacement text.                                   *)
(***************************************************************************)
Fail == [ok |-> FALSE, end |-> 0, out |-> <<>>]

Hit(e, o) == [ok |-> TRUE, end |-> e, out |-> o]

StartsAt(s, i, lit) ==
  /\ i >= 1
  /\ i + Len(lit) - 1 <= Len(s)
  /\ \A k \in 1..Len(lit) : s[i + k - 1] = lit[k]

\* ^ under the m flag
LineStart(s, i) == i = 1 \/ s[i - 1] = NL

\* $ under the m flag
LineEnd(s, i) == i = Len(s) + 1 \/ s[i] = NL

\* the first position in lo..hi that satisfies P; a position above hi if none
First(lo, hi, P) ==
  IF hi < lo THEN lo
  ELSE CHOOSE j \in lo..(hi + 1) :
         /\ j = hi + 1 \/ P[j]
         /\ \A k \in lo..(j - 1) : ~P[k]

\* the last position in lo..hi that satisfies P; a position below lo if none
Last(lo, hi, P) ==
  IF hi < lo THEN hi
  ELSE CHOOSE j \in (lo - 1)..hi :
         /\ j = lo - 1 \/ P[j]
         /\ \A k \in (j + 1)..hi : ~P[k]

\* greedy [cs]*: the first position at or after i whose character is not in cs
SkipSet(s, i, cs) == First(i, Len(s), [j \in i..Len(s) |-> s[j] \notin cs])

\* greedy [^cs]*: the first position at or after i whose character is in cs
SkipUntil(s, i, cs) == First(i, Len(s), [j \in i..Len(s) |-> s[j] \in cs])

\* greedy .* : the end of the line that holds position i
EndOfLine(s, i) == SkipUntil(s, i, {NL})

\* the first position at or after i where lit starts, 0 if none
FindLit(s, i, lit) ==
  LET hi == Len(s) - Len(lit) + 1
      e == First(i, hi, [j \in i..hi |-> StartsAt(s, j, lit)])
  IN  IF e > hi THEN 0 ELSE e

\* the last position in lo..hi where lit starts, 0 if none
FindLastLit(s, lo, hi, lit) ==
  LET e == Last(lo, hi, [j \in lo..hi |-> StartsAt(s, j, lit)])
  IN  IF e < lo THEN 0 ELSE e

\* \s+(.+)$ at position j: greedy whitespace (it may run over newlines), then
\* the rest of the line as group g..e-1; when the whitespace runs to the end
\* of the text the engine backtracks to the last character that is no newline
SpaceThenRest(s, j) ==
  LET w == SkipSet(s, j, Whitespace)
  IN  IF w = j THEN [ok |-> FALSE, g |-> 0, e |-> 0]
      ELSE IF w <= Len(s) THEN [ok |-> TRUE, g |-> w, e |-> EndOfLine(s, w)]
      ELSE LET g == Last(j + 1, Len(s), [k \in (j + 1)..Len(s) |-> s[k] # NL])
           IN  IF g < j + 1 THEN [ok |-> FALSE, g |-> 0, e |-> 0]
               ELSE [ok |-> TRUE, g |-> g, e |-> EndOfLine(s, g)]

\* (.+?)delim with a group that starts at e - 1: the position of the first
\* delim at or after e, provided no newline comes before it; 0 if none
LazyDot(s, e, delim) ==
  LET d == FindLit(s, e, delim)
  IN  IF d > 0 /\ EndOfLine(s, e - 1) >= d THEN d ELSE 0

\* String.prototype.trim
trim(s) ==
  LET i == SkipSet(s, 1, Whitespace)
      j == Last(i, Len(s), [k \in i..Len(s) |-> s[k] \notin Whitespace])
  IN  SubSeq(s, i, j)

\* text.replace(/c/g, lit) for a single character c
RECURSIVE ReplaceChar(_, _, _)
ReplaceChar(s, c, lit) ==
  LET j == First(1, Len(s), [k \in 1..Len(s) |-> s[k] = c])
  IN  IF j > Len(s) THEN s
      ELSE SubSeq(s, 1, j - 1) \o lit \o ReplaceChar(SubSeq(s, j + 1, Len(s)), c, lit)

escapeHtml(text) ==
  ReplaceChar(ReplaceChar(ReplaceChar(ReplaceChar(ReplaceChar(text,
    "&", <<"&", "a", "m", "p", ";">>), "<", <<"&", "l", "t", ";">>), ">", <<"&", "g", "t", ";">>), "\"", <<"&", "q", "u", "o", "t", ";">>), "'", <<"&", "#", "0", "3", "9", ";">>)

(***************************************************************************)
(* The rewrite passes of markdownToHtml, one match operator per regular   *)
(* expression.                                                            *)
(***************************************************************************)
Hashes(k) == [n \in 1..k |-> "#"]

\* /^#{k}\s+(.+)$/gm -> <hk>$1</hk>
MatchHeader(k, s, i) ==
  IF LineStart(s, i) /\ StartsAt(s, i, Hashes(k))
  THEN LET r == SpaceThenRest(s, i + k)
       IN  IF r.ok
           THEN Hit(r.e, <<"<", "h", DigitChar(k), ">">> \o SubSeq(s, r.g, r.e - 1)
                         \o <<"<", "/", "h", DigitChar(k), ">">>)
           ELSE Fail
  ELSE Fail

\* /delim(.+?)delim/g -> open $1 close
MatchEmphasis(delim, open, close, s, i) ==
  IF StartsAt(s, i, delim) /\ i + Len(delim) <= Len(s)
  THEN LET e == LazyDot(s, i + Len(delim) + 1, delim)
       IN  IF e > 0
           THEN Hit(e + Len(delim), open \o SubSeq(s, i + Len(delim), e - 1) \o close)
           ELSE Fail
  ELSE Fail

\* the inline code pattern: a backtick, one or more characters but backticks,
\* a backtick -> <code>$1</code>
MatchInlineCode(s, i) ==
  IF s[i] = Backtick
  THEN LET e == SkipUntil(s, i + 1, {Backtick})
       IN  IF e > i + 1 /\ e <= Len(s)
           THEN Hit(e + 1, <<"<", "c", "o", "d", "e", ">">> \o SubSeq(s, i + 1, e - 1) \o <<"<", "/", "c", "o", "d", "e", ">">>)
           ELSE Fail
  ELSE Fail

\* the fenced code block pattern: three backticks, word characters (the
\* language), a newline, the shortest text up to the next three backticks
MatchCodeBlock(s, i) ==
  IF StartsAt(s, i, <<Backtick, Backtick, Backtick>>)
  THEN LET w == SkipSet(s, i + 3, WordChars)
       IN  IF w <= Len(s) /\ s[w] = NL
           THEN LET e == FindLit(s, w + 1, <<Backtick, Backtick, Backtick>>)
                    lang == SubSeq(s, i + 3, w - 1)
                    langClass == IF lang # <<>>
                                 THEN <<" ", "c", "l", "a", "s", "s", "=", "\"", "l", "a", "n", "g", "u", "a", "g", "e", "-">> \o lang \o <<"\"">>
                                 ELSE <<>>
                IN  IF e > 0
                    THEN Hit(e + 3, <<"<", "p", "r", "e", ">", "<", "c", "o", "d", "e">> \o langClass \o <<">">>
                                    \o escapeHtml(trim(SubSeq(s, w + 1, e - 1)))
                                    \o <<"<", "/", "c", "o", "d", "e", ">", "<", "/", "p", "r", "e", ">">>)
                    ELSE Fail
           ELSE Fail
  ELSE Fail

\* /^>\s+(.+)$/gm -> <blockquote>$1</blockquote>
MatchBlockquote(s, i) ==
  IF LineStart(s, i) /\ s[i] = ">"
  THEN LET r == SpaceThenRest(s, i + 1)
       IN  IF r.ok
           THEN Hit(r.e, <<"<", "b", "l", "o", "c", "k", "q", "u", "o", "t", "e", ">">> \o SubSeq(s, r.g, r.e - 1) \o <<"<", "/", "b", "l", "o", "c", "k", "q", "u", "o", "t", "e", ">">>)
           ELSE Fail
  ELSE Fail

\* a literal pattern replaced by a literal
MatchLiteral(lit, rep, s, i) ==
  IF StartsAt(s, i, lit) THEN Hit(i + Len(lit), rep) ELSE Fail

\* the rule pattern: a whole line of three or more "-", or of three or more
\* "*", or of three or more "_" -> <hr>
MatchRule(s, i) ==
  IF LineStart(s, i) /\ s[i] \in {"-", "*", "_"}
  THEN LET r == SkipSet(s, i, {s[i]})
       IN  IF r - i >= 3 /\ LineEnd(s, r) THEN Hit(r, <<"<", "h", "r", ">">>) ELSE Fail
  ELSE Fail

\* the link pattern: "[", one or more characters but "]", "](", one or
\* more characters but ")", ")" -> <a href="$2">$1</a>
MatchLink(s, i) ==
  IF s[i] = "["
  THEN LET e == SkipUntil(s, i + 1, {"]"})
       IN  IF e > i + 1 /\ e + 1 <= Len(s) /\ s[e + 1] = "("
           THEN LET f == SkipUntil(s, e + 2, {")"})
                IN  IF f > e + 2 /\ f <= Len(s)
                    THEN Hit(f + 1, <<"<", "a", " ", "h", "r", "e", "f", "=", "\"">> \o SubSeq(s, e + 2, f - 1) \o <<"\"", ">">>
                                    \o SubSeq(s, i + 1, e - 1) \o <<"<", "/", "a", ">">>)
                    ELSE Fail
           ELSE Fail
  ELSE Fail

\* the image pattern: "![", any characters but "]", "](", one or more
\* characters but ")", ")" -> <img src="$2" alt="$1">
MatchImage(s, i) ==
  IF StartsAt(s, i, <<"!", "[">>)
  THEN LET e == SkipUntil(s, i + 2, {"]"})
       IN  IF e + 1 <= Len(s) /\ s[e + 1] = "("
           THEN LET f == SkipUntil(s, e + 2, {")"})
                IN  IF f > e + 2 /\ f <= Len(s)
                    THEN Hit(f + 1, <<"<", "i", "m", "g", " ", "s", "r", "c", "=", "\"">> \o SubSeq(s, e + 2, f - 1) \o <<"\"", " ", "a", "l", "t", "=", "\"">>
                                    \o SubSeq(s, i + 2, e - 1) \o <<"\"", ">">>)
                    ELSE Fail
           ELSE Fail
  ELSE Fail

\* the unordered item pattern: at a line start "*" or "-", whitespace, the
\* rest of the line -> <li>$1</li>
MatchUnorderedItem(s, i) ==
  IF LineStart(s, i) /\ s[i] \in {"*", "-"}
  THEN LET r == SpaceThenRest(s, i + 1)
       IN  IF r.ok
           THEN Hit(r.e, <<"<", "l", "i", ">">> \o SubSeq(s, r.g, r.e - 1) \o <<"<", "/", "l", "i", ">">>)
           ELSE Fail
  ELSE Fail

\* one or more repetitions of <li>.*</li>\n? starting at p: the position after
\* the last repetition, 0 when not even one matches.  The greedy .* stops at
\* the last </li> of the line.
RECURSIVE ListRunEnd(_, _, _)
ListRunEnd(s, p, n) ==
  LET eol == EndOfLine(s, p)
      q == IF StartsAt(s, p, <<"<", "l", "i", ">">>) THEN FindLastLit(s, p + 4, eol - 5, <<"<", "/", "l", "i", ">">>) ELSE 0
      after == IF q + 5 <= Len(s) /\ s[q + 5] = NL THEN q + 6 ELSE q + 5
  IN  IF q = 0 THEN (IF n = 0 THEN 0 ELSE p)
      ELSE ListRunEnd(s, after, n + 1)

\* /(<li>.*<\/li>\n?)+/g -> <ul>$&</ul>
MatchListRun(s, i) ==
  LET e == ListRunEnd(s, i, 0)
  IN  IF e > 0 THEN Hit(e, <<"<", "u", "l", ">">> \o SubSeq(s, i, e - 1) \o <<"<", "/", "u", "l", ">">>) ELSE Fail

\* /^\d+\.\s+(.+)$/gm -> <li>$1</li>
MatchOrderedItem(s, i) ==
  LET d == SkipSet(s, i, Digits)
  IN  IF LineStart(s, i) /\ d > i /\ d <= Len(s) /\ s[d] = "."
      THEN LET r == SpaceThenRest(s, d + 1)
           IN  IF r.ok
               THEN Hit(r.e, <<"<", "l", "i", ">">> \o SubSeq(s, r.g, r.e - 1) \o <<"<", "/", "l", "i", ">">>)
               ELSE Fail
      ELSE Fail

\* /^(?!<[a-z]|$)(.+)$/gm -> <p>$1</p>
MatchParagraph(s, i) ==
  IF /\ LineStart(s, i)
     /\ ~(s[i] = "<" /\ i + 1 <= Len(s) /\ s[i + 1] \in LowerChars)
     /\ ~LineEnd(s, i)
  THEN LET e == EndOfLine(s, i)
       IN  Hit(e, <<"<", "p", ">">> \o SubSeq(s, i, e - 1) \o <<"<", "/", "p", ">">>)
  ELSE Fail

\* /\n\n+/g -> \n\n
MatchBlankLines(s, i) ==
  LET r == SkipSet(s, i, {NL})
  IN  IF r - i >= 2 THEN Hit(r, <<NL, NL>>) ELSE Fail

\* the passes with the emphasis patterns ordered shortest marker first
PassOrderShortestFirst ==
  <<"h6", "h5", "h4", "h3", "h2", "h1",
    "star1", "star2", "star3", "under1", "under2", "under3",
    "strike", "inlineCode", "codeBlock",
    "blockquote", "mergeQuotes", "rule", "link", "image",
    "unorderedItem", "listRun", "orderedItem",
    "paragraph", "emptyParagraph", "blankLines">>

\* the passes in the order markdownToHtml applies them
PassOrder ==
  <<"h6", "h5", "h4", "h3", "h2", "h1",
    "star3", "star2", "star1", "under3", "under2", "under1",
    "strike", "inlineCode", "codeBlock",
    "blockquote", "mergeQuotes", "rule", "link", "image",
    "unorderedItem", "listRun", "orderedItem",
    "paragraph", "emptyParagraph", "blankLines">>

MatchAt(p, s, i) ==
  CASE p = "h6" -> MatchHeader(6, s, i)
    [] p = "h5" -> MatchHeader(5, s, i)
    [] p = "h4" -> MatchHeader(4, s, i)
    [] p = "h3" -> MatchHeader(3, s, i)
    [] p = "h2" -> MatchHeader(2, s, i)
    [] p = "h1" -> MatchHeader(1, s, i)
    [] p = "star3" -> MatchEmphasis(<<"*", "*", "*">>, <<"<", "s", "t", "r", "o", "n", "g", ">", "<", "e", "m", ">">>, <<"<", "/", "e", "m", ">", "<", "/", "s", "t", "r", "o", "n", "g", ">">>, s, i)
    [] p = "star2" -> MatchEmphasis(<<"*", "*">>, <<"<", "s", "t", "r", "o", "n", "g", ">">>, <<"<", "/", "s", "t", "r", "o", "n", "g", ">">>, s, i)
    [] p = "star1" -> MatchEmphasis(<<"*">>, <<"<", "e", "m", ">">>, <<"<", "/", "e", "m", ">">>, s, i)
    [] p = "under3" -> MatchEmphasis(<<"_", "_", "_">>, <<"<", "s", "t", "r", "o", "n", "g", ">", "<", "e", "m", ">">>, <<"<", "/", "e", "m", ">", "<", "/", "s", "t", "r", "o", "n", "g", ">">>, s, i)
    [] p = "under2" -> MatchEmphasis(<<"_", "_">>, <<"<", "s", "t", "r", "o", "n", "g", ">">>, <<"<", "/", "s", "t", "r", "o", "n", "g", ">">>, s, i)
    [] p = "under1" -> MatchEmphasis(<<"_">>, <<"<", "e", "m", ">">>, <<"<", "/", "e", "m", ">">>, s, i)
    [] p = "strike" -> MatchEmphasis(<<"~", "~">>, <<"<", "d", "e", "l", ">">>, <<"<", "/", "d", "e", "l", ">">>, s, i)
    [] p = "inlineCode" -> MatchInlineCode(s, i)
    [] p = "codeBlock" -> MatchCodeBlock(s, i)
    [] p = "blockquote" -> MatchBlockquote(s, i)
    [] p = "mergeQuotes" -> MatchLiteral(<<"<", "/", "b", "l", "o", "c", "k", "q", "u", "o", "t", "e", ">", "\n", "<", "b", "l", "o", "c", "k", "q", "u", "o", "t", "e", ">">>, <<NL>>, s, i)
    [] p = "rule" -> MatchRule(s, i)
    [] p = "link" -> MatchLink(s, i)
    [] p = "image" -> MatchImage(s, i)
    [] p = "unorderedItem" -> MatchUnorderedItem(s, i)
    [] p = "listRun" -> MatchListRun(s, i)
    [] p = "orderedItem" -> MatchOrderedItem(s, i)
    [] p = "paragraph" -> MatchParagraph(s, i)
    [] p = "emptyParagraph" -> MatchLiteral(<<"<", "p", ">", "<", "/", "p", ">">>, <<>>, s, i)
    [] p = "blankLines" -> MatchBlankLines(s, i)

\* String.prototype.replace with a global pattern: the matches are found left
\* to right, each search resuming where the previous match ended; matchAt[k]
\* is the match of the pattern at position k
RECURSIVE Splice(_, _, _)
Splice(s, i, matchAt) ==
  LET j == First(i, Len(s), [k \in i..Len(s) |-> matchAt[k].ok])
  IN  IF j > Len(s) THEN SubSeq(s, i, Len(s))
      ELSE SubSeq(s, i, j - 1) \o matchAt[j].out \o Splice(s, matchAt[j].end, matchAt)

ReplaceAll(p, s) == Splice(s, 1, [k \in 1..Len(s) |-> MatchAt(p, s, k)])

\* html after the passes from..to of PassOrder (no pattern matches in an
\* empty text)
RunPasses(html, from, to) ==
  LET after[k \in (from - 1)..to] ==
        IF k = from - 1 THEN html
        ELSE LET h == after[k - 1]
             IN  IF h = <<>> THEN <<>> ELSE ReplaceAll(PassOrder[k], h)
  IN  after[to]

\* the groups of passes of the source: headers, emphasis, code, quotes and
\* rules, links and images, lists, paragraphs
PassGroups ==
  <<<<1, 6>>, <<7, 13>>, <<14, 15>>, <<16, 18>>, <<19, 20>>, <<21, 23>>, <<24, 26>>>>

\* the groups one after the other, then trim; a text that a group empties
\* stays empty
markdownToHtml(markdown) ==
  LET stage[g \in 0..Len(PassGroups)] ==
        IF g = 0 THEN markdown
        ELSE LET h == stage[g - 1]
             IN  IF h = <<>> THEN <<>>
                 ELSE RunPasses(h, PassGroups[g][1], PassGroups[g][2])
  IN  trim(stage[Len(PassGroups)])

(***************************************************************************)
(* Frontmatter values.  A value of the metadata map is a boolean, a number,*)
(* a string or a list of strings; every record carries all the fields so   *)
(* that values of different types compare.                                 *)
(***************************************************************************)
Bool(b) == [t |-> "boolean", b |-> b, n |-> 0, s |-> <<>>, l |-> <<>>]

Num(n) == [t |-> "number", b |-> FALSE, n |-> n, s |-> <<>>, l |-> <<>>]

Str(s) == [t |-> "string", b |-> FALSE, n |-> 0, s |-> s, l |-> <<>>]

List(l) == [t |-> "array", b |-> FALSE, n |-> 0, s |-> <<>>, l |-> l]

\* undefined: a property an object does not have
Undefined == [t |-> "undefined", b |-> FALSE, n |-> 0, s |-> <<>>, l |-> <<>>]

\* the decimal digits of a natural number
RECURSIVE NatToStr(_)
NatToStr(n) ==
  IF n < 10 THEN <<DigitChar(n)>>
  ELSE NatToStr(n \div 10) \o <<DigitChar(n % 10)>>

\* the natural number written by a sequence of digits
DigitValue(c) == CHOOSE d \in 0..9 : DigitChar(d) = c

RECURSIVE StrToNat(_)
StrToNat(s) ==
  IF s = <<>> THEN 0
  ELSE 10 * StrToNat(SubSeq(s, 1, Len(s) - 1)) + DigitValue(s[Len(s)])

\* `${value}` for a scalar
Interpolate(v) ==
  CASE v.t = "boolean" -> (IF v.b THEN <<"t", "r", "u", "e">> ELSE <<"f", "a", "l", "s", "e">>)
    [] v.t = "number" -> (IF v.n < 0 THEN <<"-">> \o NatToStr(0 - v.n) ELSE NatToStr(v.n))
    [] v.t = "string" -> v.s
    [] v.t = "undefined" -> <<"u", "n", "d", "e", "f", "i", "n", "e", "d">>

\* Number(value) is not NaN, for the numerals the model writes: an optional
\* sign and decimal digits
IsNumeric(value) ==
  LET d == IF value # <<>> /\ value[1] \in {"-", "+"} THEN Tail(value) ELSE value
  IN  d # <<>> /\ \A k \in 1..Len(d) : d[k] \in Digits

\* Number(value) for such a numeral
ToNumber(value) ==
  IF value[1] = "-" THEN 0 - StrToNat(Tail(value))
  ELSE IF value[1] = "+" THEN StrToNat(Tail(value))
  ELSE StrToNat(value)

(***************************************************************************)
(* The metadata map: the entries of a JavaScript object in property order, *)
(* that is the integer-like keys in ascending order, then the other keys   *)
(* in insertion order.                                                     *)
(***************************************************************************)
EmptyMap == <<>>

Keys(map) == {map[i].k : i \in 1..Len(map)}

Get(map, key) == map[CHOOSE i \in 1..Len(map) : map[i].k = key].v

\* an array index: a canonical numeral
IsIndexKey(key) ==
  /\ key # <<>>
  /\ \A i \in 1..Len(key) : key[i] \in Digits
  /\ key[1] = "0" => Len(key) = 1

\* whether key goes before the entry e when it is added
GoesBefore(key, e) ==
  IsIndexKey(key) /\ (~IsIndexKey(e.k) \/ StrToNat(key) < StrToNat(e.k))

\* map[key] = value
Put(map, key, value) ==
  IF key \in Keys(map)
  THEN [i \in 1..Len(map) |-> IF map[i].k = key THEN [k |-> key, v |-> value] ELSE map[i]]
  ELSE LET at == First(1, Len(map), [i \in 1..Len(map) |-> GoesBefore(key, map[i])])
       IN  SubSeq(map, 1, at - 1) \o <<[k |-> key, v |-> value]>>
             \o SubSeq(map, at, Len(map))

\* {...map, ...updates}
RECURSIVE Spread(_, _)
Spread(map, updates) ==
  IF updates = <<>> THEN map
  ELSE Spread(Put(map, updates[1].k, updates[1].v), Tail(updates))

(***************************************************************************)
(* extractContent                                                          *)
(***************************************************************************)
\* content.match(/^---\n([\s\S]*?)\n---\n?/): the block opens the text with a
\* line of three dashes and runs to the first later line start of three
\* dashes; [ok, block, end] with end the position after the match
MatchFrontmatter(content) ==
  LET d == FindLit(content, 5, <<"\n", "-", "-", "-">>)
  IN  IF StartsAt(content, 1, <<"-", "-", "-", "\n">>) /\ d > 0
      THEN [ok |-> TRUE, block |-> SubSeq(content, 5, d - 1),
            end |-> IF d + 4 <= Len(content) /\ content[d + 4] = NL THEN d + 5 ELSE d + 4]
      ELSE [ok |-> FALSE, block |-> <<>>, end |-> 0]

\* frontmatterStr.split('\n')
RECURSIVE SplitLines(_)
SplitLines(s) ==
  LET j == First(1, Len(s), [k \in 1..Len(s) |-> s[k] = NL])
  IN  IF j > Len(s) THEN <<s>>
      ELSE <<SubSeq(s, 1, j - 1)>> \o SplitLines(SubSeq(s, j + 1, Len(s)))

\* line.match(/^(\w+):\s*(.*)$/): [ok, key, value]
KeyValueMatch(line) ==
  LET c == SkipSet(line, 1, WordChars)
  IN  IF c > 1 /\ c <= Len(line) /\ line[c] = ":"
      THEN [ok |-> TRUE, key |-> SubSeq(line, 1, c - 1),
            value |-> SubSeq(line, SkipSet(line, c + 1, Whitespace), Len(line))]
      ELSE [ok |-> FALSE, key |-> <<>>, value |-> <<>>]

\* line.match(/^\s+-\s+(.+)$/): [ok, item]
ArrayItemMatch(line) ==
  LET d == SkipSet(line, 1, Whitespace)
      r == SpaceThenRest(line, d + 1)
  IN  IF d > 1 /\ d <= Len(line) /\ line[d] = "-" /\ r.ok
      THEN [ok |-> TRUE, item |-> SubSeq(line, r.g, r.e - 1)]
      ELSE [ok |-> FALSE, item |-> <<>>]

\* value.replace(/^["']|["']$/g, ''): a quote at the start and a quote at the
\* end are removed, each on its own
StripQuotes(value) ==
  LET lead == value # <<>> /\ value[1] \in {"\"", "'"}
      trail == Len(value) >= 2 /\ value[Len(value)] \in {"\"", "'"}
  IN  SubSeq(value, IF lead THEN 2 ELSE 1, IF trail THEN Len(value) - 1 ELSE Len(value))

\* the parser before the first line: no key, no pending array (null)
ParserStart ==
  [frontmatter |-> EmptyMap, currentKey |-> <<>>, isArray |-> FALSE, currentArray |-> <<>>]

\* frontmatter[currentKey] = value on the plain object: an own property,
\* except for the key __proto__, where the assignment goes to the prototype
\* accessor and leaves the object without the entry
Assign(map, key, value) ==
  IF key = <<"_", "_", "p", "r", "o", "t", "o", "_", "_">> THEN map ELSE Put(map, key, value)

\* a flush that records the pending array only when it has items
FlushArrayWithItems(st) ==
  IF st.isArray /\ st.currentKey # <<>> /\ st.currentArray # <<>>
  THEN Assign(st.frontmatter, st.currentKey, List(st.currentArray))
  ELSE st.frontmatter

\* if (currentArray && currentKey) frontmatter[currentKey] = currentArray; an
\* array, empty or not, is truthy
FlushArray(st) ==
  IF st.isArray /\ st.currentKey # <<>>
  THEN Assign(st.frontmatter, st.currentKey, List(st.currentArray))
  ELSE st.frontmatter

\* the scalar a non-empty value is coerced to
Coerce(value) ==
  IF value = <<"t", "r", "u", "e">> THEN Bool(TRUE)
  ELSE IF value = <<"f", "a", "l", "s", "e">> THEN Bool(FALSE)
  ELSE IF IsNumeric(value) THEN Num(ToNumber(value))
  ELSE Str(StripQuotes(value))

\* one iteration of the loop over the lines
ParseLine(st, line) ==
  LET kv == KeyValueMatch(line)
      item == ArrayItemMatch(line)
      value == trim(kv.value)
  IN  IF kv.ok
      THEN IF value = <<>>
           THEN [frontmatter |-> FlushArray(st), currentKey |-> kv.key,
                 isArray |-> TRUE, currentArray |-> <<>>]
           ELSE [frontmatter |-> Assign(FlushArray(st), kv.key, Coerce(value)),
                 currentKey |-> kv.key, isArray |-> FALSE, currentArray |-> <<>>]
      ELSE IF item.ok /\ st.isArray
      THEN [st EXCEPT !.currentArray = Append(@, StripQuotes(item.item))]
      ELSE st

RECURSIVE ParseLines(_, _)
ParseLines(st, lines) ==
  IF lines = <<>> THEN st
  ELSE ParseLines(ParseLine(st, Head(lines)), Tail(lines))

extractContent(content) ==
  LET match == MatchFrontmatter(content)
  IN  IF ~match.ok THEN [content |-> content, frontmatter |-> EmptyMap]
      ELSE [content |-> SubSeq(content, match.end, Len(content)),
            frontmatter |-> FlushArray(ParseLines(ParserStart, SplitLines(match.block)))]

(***************************************************************************)
(* updateFrontmatter                                                       *)
(***************************************************************************)
\* the lines "  - item" of a list
RECURSIVE ItemLines(_)
ItemLines(items) ==
  IF items = <<>> THEN <<>>
  ELSE <<" ", " ", "-", " ">> \o Head(items) \o <<NL>> \o ItemLines(Tail(items))

\* the line or lines of one entry, no string written between quotes
EntryLinesUnquoted(e) ==
  IF e.v.t = "array" THEN e.k \o <<":">> \o <<NL>> \o ItemLines(e.v.l)
  ELSE e.k \o <<":", " ">> \o Interpolate(e.v) \o <<NL>>

\* the line or lines of one entry, each ended by a newline
EntryLines(e) ==
  IF e.v.t = "array" THEN e.k \o <<":">> \o <<NL>> \o ItemLines(e.v.l)
  ELSE IF e.v.t = "string" /\ \E i \in 1..Len(e.v.s) : e.v.s[i] = ":"
  THEN e.k \o <<":", " ", "\"">> \o e.v.s \o <<"\"">> \o <<NL>>
  ELSE e.k \o <<":", " ">> \o Interpolate(e.v) \o <<NL>>

RECURSIVE FrontmatterLines(_)
FrontmatterLines(map) ==
  IF map = <<>> THEN <<>>
  ELSE EntryLines(Head(map)) \o FrontmatterLines(Tail(map))

updateFrontmatter(content, updates) ==
  LET extracted == extractContent(content)
      newFrontmatter == Spread(Spread(EmptyMap, extracted.frontmatter), updates)
  IN  <<"-", "-", "-", "\n">> \o FrontmatterLines(newFrontmatter) \o <<"-", "-", "-", "\n">> \o extracted.content

(***************************************************************************)
(* Markdown inputs: texts of up to MaxBlocks blocks, one per line group.   *)
(***************************************************************************)
MaxBlocks == 2

MaxRuleLen == 4

\* n copies of the character c
Repeat(c, n) == [k \in 1..n |-> c]

UniformRules == {Repeat(c, n) : c \in {"-", "*", "_"}, n \in 3..MaxRuleLen}

MixedRules == {<<"-", "*", "-">>, <<"-", "-", "_">>}

RuleBlocks == UniformRules \cup MixedRules \cup {<<"-", " ", "-">>}

ItemBlocks == {<<"-", " ", "a">>, <<"*", " ", "b">>, <<"-", " ", "c", " ", "d">>, <<"*", " ", "x", " ", "*", "y", "*">>, <<"1", ".", " ", "n">>}

\* [text](url)
Link(l) == <<"[">> \o l.text \o <<"]", "(">> \o l.url \o <<")">>

\* ![alt](url)
Image(l) == <<"!">> \o Link(l)

LinkCases == {[text |-> <<"t">>, url |-> <<"u">>]}

ImageCases == {[text |-> alt, url |-> <<"u">>] : alt \in {<<"a">>, <<>>, <<"a", " ", "b">>}}

LinkBlocks == {Link(l) : l \in LinkCases} \cup {Image(l) : l \in ImageCases}

\* a fence, an optional language tag, the code on lines of its own, a fence
Fence(f) == <<Backtick, Backtick, Backtick>> \o f.lang \o <<NL>> \o f.code \o <<NL>> \o <<Backtick, Backtick, Backtick>>

FenceCases ==
  {[lang |-> <<"j", "s">>, code |-> <<"<", "s", "c", "r", "i", "p", "t", ">">>],
   [lang |-> <<>>, code |-> <<"a", "&", "b">>],
   [lang |-> <<>>, code |-> <<"\"", "q", "\"", " ", "'", "r", "'">>]}

FenceBlocks == {Fence(f) : f \in FenceCases}

OtherBlocks ==
  {<<>>, <<"a">>, <<"#", " ", "T">>, <<"#", "#", "#", " ", "H">>, <<"#", "#", "#", "#", "#", "#", " ", "D">>, <<"#", "#", "#", "#", "#", "#", "#", " ", "E">>, <<"#", "T">>, <<"#">>, <<"<", "d", "i", "v", ">">>, <<"<", "/", "p", ">">>, <<"<", "B", ">">>, <<"<">>,
   <<"*", "*", "x", "*", "*">>,
   <<"a", "\n", "\n", "\n", "\n", "b", " ">>, <<"<", "p", ">", "<", "p", ">", "<", "/", "p", ">", "<", "/", "p", ">">>}

MdBlocks == RuleBlocks \cup ItemBlocks \cup LinkBlocks \cup FenceBlocks \cup OtherBlocks

\* the blocks joined by newlines
RECURSIVE JoinLines(_)
JoinLines(blocks) ==
  IF Len(blocks) = 0 THEN <<>>
  ELSE IF Len(blocks) = 1 THEN blocks[1]
  ELSE blocks[1] \o <<NL>> \o JoinLines(Tail(blocks))

MdInputs ==
  {JoinLines(bs) : bs \in UNION {[1..n -> MdBlocks] : n \in 1..MaxBlocks}}

(***************************************************************************)
(* Emphasis inputs: texts of up to MaxSpanLines lines, each line a span    *)
(* of emphasis, alone or between words, or a plain word.                   *)
(***************************************************************************)
MaxSpanLines == 2

\* a span of text between n marker characters on each side
EmphasisCases ==
  [marker : {"*", "_"}, n : 1..3, text : {<<"e">>, <<"e", " ", "f">>}]

Emphasis(e) == Repeat(e.marker, e.n) \o e.text \o Repeat(e.marker, e.n)

\* a line holding one span: alone, or after <<"a", " ">> and before <<" ", "b">>
SpanLines ==
  {[pre |-> <<>>, e |-> e, post |-> <<>>] : e \in EmphasisCases}
    \cup {[pre |-> <<"a", " ">>, e |-> e, post |-> <<" ", "b">>] : e \in {c \in EmphasisCases : c.text = <<"e">>}}

SpanLine(l) == l.pre \o Emphasis(l.e) \o l.post

EmphasisBlocks == {SpanLine(l) : l \in SpanLines} \cup {<<"a">>}

EmphasisInputs ==
  {JoinLines(bs) : bs \in UNION {[1..n -> EmphasisBlocks] : n \in 1..MaxSpanLines}}

(***************************************************************************)
(* Frontmatter inputs: note texts with a block of up to MaxFmLines lines,  *)
(* and the update maps handed to updateFrontmatter.                        *)
(***************************************************************************)
MaxFmLines == 2

MaxUpdates == 2

FmLines == {<<"a", ":", " ", "1">>, <<"a", ":">>, <<"b", ":", " ", "x">>, <<" ", " ", "-", " ", "i">>, <<"b", ":", " ", "\"", "q", "\"">>, <<"a", ":", " ", "t", "r", "u", "e">>, <<"j", "u", "n", "k">>}

Bodies == {<<"x">>, <<>>, <<"\n", "-", "-", "-", "\n", "z">>}

FmBlocks ==
  {JoinLines(ls) : ls \in UNION {[1..n -> FmLines] : n \in 1..MaxFmLines}}

Texts ==
  Bodies
    \cup {<<"-", "-", "-", "\n">> \o b \o <<"\n", "-", "-", "-", "\n">> \o <<"x">> : b \in FmBlocks}
    \cup {<<"-", "-", "-", "\n", "a", ":", " ", "1">>, <<"-", "-", "-", "\n", "-", "-", "-", "\n", "x">>, <<"-", "-", "-", "\n", "b", ":", " ", "\"", "q", "\n", "-", "-", "-", "\n", "x">>,
          <<"-", "-", "-", "\n", "c", ":", "\n", " ", " ", "-", " ", "i", "\n", " ", " ", "-", " ", "j", "\n", "b", ":", " ", "x", "\n", " ", " ", "-", " ", "k", "\n", "-", "-", "-", "\n", "x">>,
          <<"-", "-", "-", "\n", "c", ":", "\n", " ", " ", "-", " ", "\"", "i", "\"", "\n", "-", "-", "-", "\n", "x">>, <<"-", "-", "-", "\n", "_", "_", "p", "r", "o", "t", "o", "_", "_", ":", "\n", " ", " ", "-", " ", "i", "\n", "-", "-", "-", "\n", "x">>}

Entry(key, value) == <<[k |-> key, v |-> value]>>

UpdateMaps ==
  {EmptyMap,
   Entry(<<"a">>, Bool(TRUE)), Entry(<<"a">>, Str(<<"7">>)), Entry(<<"a">>, Str(<<"x">>)),
   Entry(<<"1">>, Str(<<"y">>)), Entry(<<"c">>, Str(<<"u", ":", "v">>)), Entry(<<"c">>, List(<<<<"i">>>>)),
   Entry(<<"c">>, Num(5)) \o Entry(<<"d">>, Str(<<"'", "q", "'", ":", "\"", "r", "\"">>))}

(***************************************************************************)
(* State.                                                                  *)
(***************************************************************************)
VARIABLES
  markdown,   \* the text handed to markdownToHtml
  html,       \* the text it returned
  mdDone,     \* whether it has returned
  text,       \* the note text the codec works on
  applied,    \* the last two updateFrontmatter calls: the text before, the updates
  nUpdates,   \* the number of updateFrontmatter calls so far
  extracted,  \* whether extractContent has been applied to text
  parsed,     \* what it returned
  vault,      \* the texts of the notes in the vault, by file
  folder,     \* the publishFolder call: where it is, and its locals
  settings,   \* the plugin settings
  tasks,      \* the quick publishes: where each one is, and its locals
  calls,      \* the createPost and updatePost calls issued so far, in order,
              \* each with the publish that issued it and the frontmatter it had
  remoteTerms,   \* the categories and tags of the remote site
  nextPostId,    \* the identifier the remote site gives to the next new post
  nextTermId,    \* the identifier it gives to the next new category or tag
  nPublishes,    \* the number of quick publishes started
  anyFailure,    \* whether the remote site has answered a request with an error
                 \* or with a body without an id
  tab,        \* the settings tab: the rows it shows, the handlers that wait
  modal       \* the publish modal

vars ==
  <<markdown, html, mdDone, text, applied, nUpdates, extracted, parsed,
    vault, folder, settings, tasks, calls, remoteTerms, nextPostId, nextTermId,
    nPublishes, anyFailure, tab, modal>>

mdVars == <<markdown, html, mdDone>>

codecVars == <<text, applied, nUpdates, extracted, parsed>>

publishVars ==
  <<vault, folder, settings, tasks, calls, remoteTerms, nextPostId, nextTermId,
    nPublishes, anyFailure>>

uiVars == <<tab, modal>>

NoResult == [content |-> <<>>, frontmatter |-> EmptyMap]

MdIdle == markdown = <<>> /\ html = <<>> /\ mdDone = TRUE

CodecIdle ==
  /\ text = <<>>
  /\ applied = <<>>
  /\ nUpdates = 0
  /\ extracted = FALSE
  /\ parsed = NoResult

NoSettings ==
  [sites |-> <<>>, defaultPostType |-> <<>>, convertMarkdown |-> FALSE,
   addFrontmatterOnPublish |-> FALSE]

\* no publishFolder call
NoFolder ==
  [pc |-> "idle", files |-> <<>>, index |-> 0, successCount |-> 0, failCount |-> 0,
   outcomes |-> <<>>, notice |-> "none", confirmed |-> "none", events |-> <<>>]

PublishIdle ==
  /\ vault = <<>>
  /\ folder = NoFolder
  /\ settings = NoSettings
  /\ tasks = <<>>
  /\ calls = <<>>
  /\ remoteTerms = {}
  /\ nextPostId = 0
  /\ nextTermId = 0
  /\ nPublishes = 0
  /\ anyFailure = FALSE

\* the settings tab not displayed
NoTab == [shown |-> <<>>, waiting |-> 0, nextSite |-> 1]

\* no publish modal
NoModal ==
  [pc |-> "none", file |-> 0, isPublishing |-> FALSE, awaits |-> {}, clicks |-> 0,
   ignored |-> 0]

UiIdle == tab = NoTab /\ modal = NoModal

(***************************************************************************)
(* The Markdown transducer applied to one input.                           *)
(***************************************************************************)
InitMarkdown ==
  /\ markdown \in MdInputs
  /\ html = <<>>
  /\ mdDone = FALSE
  /\ CodecIdle
  /\ PublishIdle
  /\ UiIdle

Convert ==
  /\ ~mdDone
  /\ html' = markdownToHtml(markdown)
  /\ mdDone' = TRUE
  /\ UNCHANGED <<markdown, codecVars, publishVars, uiVars>>

NextMarkdown == Convert

SpecMarkdown == InitMarkdown /\ [][NextMarkdown]_vars

\* the transducer applied to one text of emphasis spans
InitEmphasis ==
  /\ markdown \in EmphasisInputs
  /\ html = <<>>
  /\ mdDone = FALSE
  /\ CodecIdle
  /\ PublishIdle
  /\ UiIdle

SpecEmphasis == InitEmphasis /\ [][NextMarkdown]_vars

(***************************************************************************)
(* The frontmatter codec applied to one note text: any number of           *)
(* updateFrontmatter calls up to MaxUpdates, and extractContent on the     *)
(* text they leave.                                                        *)
(***************************************************************************)
InitCodec ==
  /\ text \in Texts
  /\ applied = <<>>
  /\ nUpdates = 0
  /\ extracted = FALSE
  /\ parsed = NoResult
  /\ MdIdle
  /\ PublishIdle
  /\ UiIdle

Update(updates) ==
  /\ nUpdates < MaxUpdates
  /\ text' = updateFrontmatter(text, updates)
  /\ applied' = (IF Len(applied) = 2 THEN Tail(applied) ELSE applied)
                  \o <<[before |-> text, updates |-> updates]>>
  /\ nUpdates' = nUpdates + 1
  /\ extracted' = FALSE
  /\ parsed' = NoResult
  /\ UNCHANGED <<mdVars, publishVars, uiVars>>

Extract ==
  /\ ~extracted
  /\ parsed' = extractContent(text)
  /\ extracted' = TRUE
  /\ UNCHANGED <<text, applied, nUpdates, mdVars, publishVars, uiVars>>

NextCodec ==
  \/ \E updates \in UpdateMaps : Update(updates)
  \/ Extract

SpecCodec == InitCodec /\ [][NextCodec]_vars

(***************************************************************************)
(* Quick publish: quickPublishFile and publishNote, one step per await.    *)
(* Several quick publishes of the one note may be in flight together.      *)
(***************************************************************************)
MaxTasks == 2

MaxPublishes == 2

Tasks == 1..MaxTasks

\* frontmatter.key
Lookup(map, key) == IF key \in Keys(map) THEN Get(map, key) ELSE Undefined

\* the truthiness of a value: an array, empty or not, is truthy
Truthy(v) ==
  CASE v.t = "boolean" -> v.b
    [] v.t = "number" -> v.n # 0
    [] v.t = "string" -> v.s # <<>>
    [] v.t = "array" -> TRUE
    [] OTHER -> FALSE

\* v || d
OrElse(v, d) == IF Truthy(v) THEN v ELSE d

\* what for..of can iterate over: an array, or a string character by character
Iterable(v) == v.t \in {"array", "string"}

Names(v) ==
  IF v.t = "array" THEN v.l
  ELSE IF v.t = "string" THEN [i \in 1..Len(v.s) |-> <<v.s[i]>>]
  ELSE <<>>

LowerOf(c) ==
  CASE c = "A" -> "a" [] c = "B" -> "b" [] c = "C" -> "c" [] c = "T" -> "t"
    [] c = "X" -> "x" [] OTHER -> c

toLowerCase(s) == [i \in 1..Len(s) |-> LowerOf(s[i])]

\* new Date().toISOString().split('T')[0]
Today == <<"2", "0", "2", "5", "-", "0", "1", "-", "0", "2">>

\* result.link, the address the remote site gives a post
PostLink(id) == <<"h", "t", "t", "p", ":", "/", "/", "w", "/", "?", "p", "=">> \o NatToStr(id)

NoteFiles ==
  {<<"b">>,
   <<"-", "-", "-", "\n", "w", "p", "_", "p", "o", "s", "t", "_", "i", "d", ":", " ", "7", "\n", "-", "-", "-", "\n", "b">>,
   <<"-", "-", "-", "\n", "w", "p", "_", "p", "o", "s", "t", "_", "i", "d", ":", " ", "0", "\n", "-", "-", "-", "\n", "b">>,
   <<"-", "-", "-", "\n", "w", "p", "_", "p", "o", "s", "t", "_", "i", "d", ":", " ", "-", "3", "\n", "-", "-", "-", "\n", "b">>,
   <<"-", "-", "-", "\n", "w", "p", "_", "p", "o", "s", "t", "_", "i", "d", ":", " ", "\"", "7", "\"", "\n", "-", "-", "-", "\n", "b">>,
   <<"-", "-", "-", "\n", "w", "p", "_", "p", "o", "s", "t", "_", "i", "d", ":", "\n", "-", "-", "-", "\n", "b">>,
   <<"-", "-", "-", "\n", "w", "p", "_", "p", "o", "s", "t", "_", "t", "y", "p", "e", ":", " ", "p", "a", "g", "e", "\n", "w", "p", "_", "c", "a", "t", "e", "g", "o", "r", "i", "e", "s", ":", "\n", " ", " ", "-", " ", "C", "\n", "w", "p", "_", "p", "o", "s", "t", "_", "i", "d", ":", " ", "7", "\n", "-", "-", "-", "\n", "b">>,
   <<"-", "-", "-", "\n", "w", "p", "_", "c", "a", "t", "e", "g", "o", "r", "i", "e", "s", ":", "\n", " ", " ", "-", " ", "C", "\n", "-", "-", "-", "\n", "#", " ", "T">>,
   <<"-", "-", "-", "\n", "w", "p", "_", "t", "a", "g", "s", ":", "\n", " ", " ", "-", " ", "t", "\n", "-", "-", "-", "\n", "b">>,
   <<"-", "-", "-", "\n", "w", "p", "_", "c", "a", "t", "e", "g", "o", "r", "i", "e", "s", ":", " ", "n", "\n", "w", "p", "_", "t", "a", "g", "s", ":", " ", "5", "\n", "-", "-", "-", "\n", "b">>}

Site == [isDefault |-> TRUE]

SettingsChoices ==
  [sites : {<<>>, <<Site>>},
   defaultPostType : {<<"p", "o", "s", "t">>},
   convertMarkdown : BOOLEAN,
   addFrontmatterOnPublish : BOOLEAN]

InitialTerms ==
  {[kind |-> "categories", name |-> <<"c">>, id |-> 1],
   [kind |-> "categories", name |-> <<"d">>, id |-> 2]}

NoRequest == [kind |-> "none", id |-> 0]

NoAnswer == [settled |-> FALSE, success |-> FALSE, postId |-> Undefined]

IdleTask ==
  [pc |-> "idle", publish |-> 0, file |-> 0, frontmatter |-> EmptyMap,
   htmlContent |-> <<>>,
   postType |-> Undefined, categories |-> <<>>, categoriesIterable |-> TRUE,
   tags |-> <<>>, tagsIterable |-> TRUE, categoryIds |-> <<>>, tagIds |-> <<>>,
   request |-> NoRequest, result |-> NoAnswer, updatedContent |-> <<>>]

\* what the remote site answers to a post request: a post with its id, a
\* body without an id, an error status
Answers == {"ok", "empty", "error"}

\* a test that lets the identifier 0 through
isValidPostIdOrZero(existingPostId) ==
  existingPostId.t = "number" /\ existingPostId.n >= 0

\* typeof existingPostId === 'number' && existingPostId > 0
isValidPostId(existingPostId) ==
  existingPostId.t = "number" /\ existingPostId.n > 0

\* a call that is over: its locals are gone, its outcome is what is left
Returned(task, pc) ==
  [IdleTask EXCEPT !.pc = pc, !.publish = task.publish, !.result = task.result]

\* the update-or-create decision, and the request it issues
Decide(task) ==
  LET existingPostId == Lookup(task.frontmatter, <<"w", "p", "_", "p", "o", "s", "t", "_", "i", "d">>)
  IN  IF isValidPostId(existingPostId)
      THEN [task EXCEPT !.pc = "updatePost",
                        !.request = [kind |-> "update", id |-> existingPostId.n]]
      ELSE [task EXCEPT !.pc = "createPost",
                        !.request = [kind |-> "create", id |-> 0]]

\* publishNote with the names looked up whatever the type
AdvanceAnyType(task) ==
  IF ~task.categoriesIterable THEN Returned(task, "threw")
  ELSE IF task.categories # <<>> THEN [task EXCEPT !.pc = "getCategories"]
  ELSE IF ~task.tagsIterable THEN Returned(task, "threw")
  ELSE IF task.tags # <<>> THEN [task EXCEPT !.pc = "getTags"]
  ELSE Decide(task)

\* where publishNote goes next: the category names, then the tag names, of a
\* post; then the decision
Advance(task) ==
  IF task.postType # Str(<<"p", "o", "s", "t">>) THEN Decide(task)
  ELSE IF ~task.categoriesIterable THEN Returned(task, "threw")
  ELSE IF task.categories # <<>> THEN [task EXCEPT !.pc = "getCategories"]
  ELSE IF ~task.tagsIterable THEN Returned(task, "threw")
  ELSE IF task.tags # <<>> THEN [task EXCEPT !.pc = "getTags"]
  ELSE Decide(task)

\* the post object goes out with the identifiers gathered (no list at all
\* when none was gathered)
Continue(t, task) ==
  LET next == Advance(task)
  IN  /\ tasks' = [tasks EXCEPT ![t] = next]
      /\ calls' = IF next.pc \in {"createPost", "updatePost"}
                  THEN Append(calls, [publish |-> next.publish,
                                      frontmatter |-> next.frontmatter,
                                      kind |-> next.request.kind,
                                      id |-> next.request.id,
                                      type |-> next.postType,
                                      categories |-> next.categoryIds,
                                      tags |-> next.tagIds])
                  ELSE calls

\* one note, any settings with convertMarkdown at its default (both values
\* are taken under the bulk publish and the modal)
Init ==
  /\ vault \in {<<note>> : note \in NoteFiles}
  /\ folder = NoFolder
  /\ settings \in {choice \in SettingsChoices : choice.convertMarkdown}
  /\ tasks = [t \in Tasks |-> IdleTask]
  /\ calls = <<>>
  /\ remoteTerms = InitialTerms
  /\ nextPostId = 1
  /\ nextTermId = 3
  /\ nPublishes = 0
  /\ anyFailure = FALSE
  /\ MdIdle
  /\ CodecIdle
  /\ UiIdle

Free(t) == tasks[t].pc \in {"idle", "returned", "threw"}

\* quickPublishFile(file) up to its first await, as publish number p
Started(p, f) ==
  [IdleTask EXCEPT !.publish = p, !.file = f,
                   !.pc = IF Len(settings.sites) = 0 THEN "returned" ELSE "read"]

\* quickPublishFile up to its first await; the call takes the first free
\* place among the tasks
QuickPublishFile(t, f) ==
  /\ Free(t)
  /\ \A u \in 1..(t - 1) : ~Free(u)
  /\ nPublishes < MaxPublishes
  /\ nPublishes' = nPublishes + 1
  /\ tasks' = [tasks EXCEPT ![t] = Started(nPublishes + 1, f)]
  /\ UNCHANGED <<vault, folder, settings, calls, remoteTerms, nextPostId, nextTermId,
                 anyFailure, mdVars, codecVars, uiVars>>

\* the note is read; quickPublishFile builds the options and publishNote runs
\* up to its first await
ReadNote(t) ==
  /\ tasks[t].pc = "read"
  /\ LET extracted_ == extractContent(vault[tasks[t].file])
         frontmatter == extracted_.frontmatter
         categories == OrElse(Lookup(frontmatter, <<"w", "p", "_", "c", "a", "t", "e", "g", "o", "r", "i", "e", "s">>), List(<<>>))
         tags == OrElse(Lookup(frontmatter, <<"w", "p", "_", "t", "a", "g", "s">>), List(<<>>))
     IN  Continue(t,
           [tasks[t] EXCEPT
              !.frontmatter = frontmatter,
              !.postType = OrElse(Lookup(frontmatter, <<"w", "p", "_", "p", "o", "s", "t", "_", "t", "y", "p", "e">>),
                                  Str(settings.defaultPostType)),
              !.categories = Names(categories),
              !.categoriesIterable = Iterable(categories),
              !.tags = Names(tags),
              !.tagsIterable = Iterable(tags),
              !.htmlContent = IF settings.convertMarkdown
                              THEN markdownToHtml(extracted_.content)
                              ELSE extracted_.content])
  /\ UNCHANGED <<vault, folder, settings, remoteTerms, nextPostId, nextTermId,
                 nPublishes, anyFailure, mdVars, codecVars, uiVars>>

NextName(task, kind) ==
  Head(IF kind = "categories" THEN task.categories ELSE task.tags)

Drop(task, kind) ==
  IF kind = "categories" THEN [task EXCEPT !.categories = Tail(@)]
  ELSE [task EXCEPT !.tags = Tail(@)]

Push(task, kind, id) ==
  IF kind = "categories" THEN [task EXCEPT !.categoryIds = Append(@, id)]
  ELSE [task EXCEPT !.tagIds = Append(@, id)]

\* the answer to the listing request of getOrCreateCategory / getOrCreateTag
GetTerms(kind, createPc, t, ok) ==
  /\ LET task == tasks[t]
         name == NextName(task, kind)
         existing == {term \in remoteTerms :
                        term.kind = kind /\ toLowerCase(term.name) = toLowerCase(name)}
         found == CHOOSE term \in existing : \A other \in existing : term.id <= other.id
     IN  IF ~ok
         THEN Continue(t, Drop(task, kind)) /\ anyFailure' = TRUE
         ELSE IF existing # {}
         THEN Continue(t, Push(Drop(task, kind), kind, found.id)) /\ UNCHANGED anyFailure
         ELSE /\ tasks' = [tasks EXCEPT ![t].pc = createPc]
              /\ UNCHANGED <<calls, anyFailure>>
  /\ UNCHANGED <<vault, folder, settings, remoteTerms, nextPostId, nextTermId,
                 nPublishes, mdVars, codecVars, uiVars>>

\* the answer to the creating request of getOrCreateCategory / getOrCreateTag
PostTerm(kind, t, ok) ==
  /\ LET task == tasks[t]
         name == NextName(task, kind)
     IN  IF ok
         THEN /\ remoteTerms' = remoteTerms \cup
                                  {[kind |-> kind, name |-> name, id |-> nextTermId]}
              /\ nextTermId' = nextTermId + 1
              /\ Continue(t, Push(Drop(task, kind), kind, nextTermId))
              /\ UNCHANGED anyFailure
         ELSE /\ Continue(t, Drop(task, kind))
              /\ anyFailure' = TRUE
              /\ UNCHANGED <<remoteTerms, nextTermId>>
  /\ UNCHANGED <<vault, folder, settings, nextPostId, nPublishes, mdVars, codecVars, uiVars>>

\* getOrCreateCategory: the list of categories is back
GetCategories(t, ok) ==
  /\ tasks[t].pc = "getCategories"
  /\ GetTerms("categories", "createCategory", t, ok)

\* getOrCreateCategory: the answer to the creation is back
CreateCategory(t, ok) ==
  /\ tasks[t].pc = "createCategory"
  /\ PostTerm("categories", t, ok)

\* getOrCreateTag: the list of tags is back
GetTags(t, ok) ==
  /\ tasks[t].pc = "getTags"
  /\ GetTerms("tags", "createTag", t, ok)

\* getOrCreateTag: the answer to the creation is back
CreateTag(t, ok) ==
  /\ tasks[t].pc = "createTag"
  /\ PostTerm("tags", t, ok)

\* the result is back in publishNote: read the note again if it is to be
\* updated, return otherwise
Settle(task, success, postId) ==
  LET settled ==
        [task EXCEPT !.result = [settled |-> TRUE, success |-> success, postId |-> postId]]
  IN  IF success /\ settings.addFrontmatterOnPublish
      THEN [settled EXCEPT !.pc = "reread"]
      ELSE Returned(settled, "returned")

\* the answer to the request of createPost; a body without an id is an
\* invalid response, a failure
CreatePost(t, answer) ==
  /\ tasks[t].pc = "createPost"
  /\ IF answer = "ok"
     THEN /\ tasks' = [tasks EXCEPT ![t] = Settle(@, TRUE, Num(nextPostId))]
          /\ nextPostId' = nextPostId + 1
          /\ UNCHANGED anyFailure
     ELSE /\ tasks' = [tasks EXCEPT ![t] = Settle(@, FALSE, Undefined)]
          /\ anyFailure' = TRUE
          /\ UNCHANGED nextPostId
  /\ UNCHANGED <<vault, folder, settings, calls, remoteTerms, nextTermId, nPublishes,
                 mdVars, codecVars, uiVars>>

\* the answer to the request of updatePost; result.id is passed on as it is
UpdatePost(t, answer) ==
  /\ tasks[t].pc = "updatePost"
  /\ CASE answer = "ok" ->
            /\ tasks' = [tasks EXCEPT ![t] = Settle(@, TRUE, Num(@.request.id))]
            /\ UNCHANGED anyFailure
       [] answer = "empty" ->
            /\ tasks' = [tasks EXCEPT ![t] = Settle(@, TRUE, Undefined)]
            /\ anyFailure' = TRUE
       [] answer = "error" ->
            /\ tasks' = [tasks EXCEPT ![t] = Settle(@, FALSE, Undefined)]
            /\ anyFailure' = TRUE
  /\ UNCHANGED <<vault, folder, settings, calls, remoteTerms, nextPostId, nextTermId,
                 nPublishes, mdVars, codecVars, uiVars>>

\* result.postUrl: the link of the post the remote site answered with
PostUrl(postId) ==
  IF postId.t = "number" THEN Str(PostLink(postId.n)) ELSE Undefined

\* the keys written after a successful publish
PublishUpdates(postId) ==
  Entry(<<"w", "p", "_", "p", "o", "s", "t", "_", "i", "d">>, postId)
    \o Entry(<<"w", "p", "_", "p", "o", "s", "t", "_", "u", "r", "l">>, PostUrl(postId))
    \o Entry(<<"w", "p", "_", "l", "a", "s", "t", "_", "p", "u", "b", "l", "i", "s", "h", "e", "d">>, Str(Today))

\* the note is read again and the new text is built
ReadNoteAgain(t) ==
  /\ tasks[t].pc = "reread"
  /\ tasks' = [tasks EXCEPT
                 ![t].updatedContent =
                    updateFrontmatter(vault[tasks[t].file],
                                      PublishUpdates(tasks[t].result.postId)),
                 ![t].pc = "modify"]
  /\ UNCHANGED <<vault, folder, settings, calls, remoteTerms, nextPostId, nextTermId,
                 nPublishes, anyFailure, mdVars, codecVars, uiVars>>

\* the new text is written; publishNote and quickPublishFile return
ModifyNote(t) ==
  /\ tasks[t].pc = "modify"
  /\ vault' = [vault EXCEPT ![tasks[t].file] = tasks[t].updatedContent]
  /\ tasks' = [tasks EXCEPT ![t] = Returned(@, "returned")]
  /\ UNCHANGED <<folder, settings, calls, remoteTerms, nextPostId, nextTermId,
                 nPublishes, anyFailure, mdVars, codecVars, uiVars>>

Next ==
  \/ \E t \in Tasks, f \in DOMAIN vault : QuickPublishFile(t, f)
  \/ \E t \in Tasks : ReadNote(t)
  \/ \E t \in Tasks, ok \in BOOLEAN : GetCategories(t, ok)
  \/ \E t \in Tasks, ok \in BOOLEAN : CreateCategory(t, ok)
  \/ \E t \in Tasks, ok \in BOOLEAN : GetTags(t, ok)
  \/ \E t \in Tasks, ok \in BOOLEAN : CreateTag(t, ok)
  \/ \E t \in Tasks, answer \in Answers : CreatePost(t, answer)
  \/ \E t \in Tasks, answer \in Answers : UpdatePost(t, answer)
  \/ \E t \in Tasks : ReadNoteAgain(t)
  \/ \E t \in Tasks : ModifyNote(t)

Spec == Init /\ [][Next]_vars

(***************************************************************************)
(* Bulk publish: publishFolder over the markdown files of a folder, one    *)
(* quick publish after the other, each awaited.                            *)
(***************************************************************************)
MaxFiles == 2

FolderNotes ==
  {<<"b">>,
   <<"-", "-", "-", "\n", "w", "p", "_", "p", "o", "s", "t", "_", "i", "d", ":", " ", "7", "\n", "-", "-", "-", "\n", "b">>,
   <<"-", "-", "-", "\n", "w", "p", "_", "t", "a", "g", "s", ":", "\n", " ", " ", "-", " ", "t", "\n", "-", "-", "-", "\n", "b">>,
   <<"-", "-", "-", "\n", "w", "p", "_", "c", "a", "t", "e", "g", "o", "r", "i", "e", "s", ":", " ", "n", "\n", "w", "p", "_", "t", "a", "g", "s", ":", " ", "5", "\n", "-", "-", "-", "\n", "b">>,
   <<"-", "-", "-", "\n", "w", "p", "_", "c", "a", "t", "e", "g", "o", "r", "i", "e", "s", ":", "\n", " ", " ", "-", " ", "d", "\n", " ", " ", "-", " ", "C", "\n", "-", "-", "-", "\n", "#", " ", "T">>,
   <<"-", "-", "-", "\n", "w", "p", "_", "p", "o", "s", "t", "_", "t", "y", "p", "e", ":", " ", "p", "a", "g", "e", "\n", "w", "p", "_", "c", "a", "t", "e", "g", "o", "r", "i", "e", "s", ":", "\n", " ", " ", "-", " ", "C", "\n", "w", "p", "_", "p", "o", "s", "t", "_", "i", "d", ":", " ", "7", "\n", "-", "-", "-", "\n", "b">>}

\* the place among the tasks where the quick publishes of publishFolder run
FolderTask == 1

InitFolder ==
  /\ vault \in UNION {[1..n -> FolderNotes] : n \in 0..MaxFiles}
  /\ folder = NoFolder
  /\ settings \in SettingsChoices
  /\ tasks = [t \in Tasks |-> IdleTask]
  /\ calls = <<>>
  /\ remoteTerms = InitialTerms
  /\ nextPostId = 1
  /\ nextTermId = 3
  /\ nPublishes = 0
  /\ anyFailure = FALSE
  /\ MdIdle
  /\ CodecIdle
  /\ UiIdle

\* publishFolder up to its first await: the markdown files of the folder are
\* gathered; without any the call returns, else confirmBulkPublish shows its
\* notice, sets its timer and hands back a pending promise
PublishFolder ==
  /\ folder.pc = "idle"
  /\ folder' = IF Len(vault) = 0
               THEN [folder EXCEPT !.pc = "empty"]
               ELSE [folder EXCEPT !.files = [i \in 1..Len(vault) |-> i],
                                   !.pc = "confirm",
                                   !.notice = "shown",
                                   !.confirmed = "pending"]
  /\ UNCHANGED <<vault, settings, tasks, calls, remoteTerms, nextPostId, nextTermId,
                 nPublishes, anyFailure, mdVars, codecVars, uiVars>>

\* a publishFolder that goes on whatever the confirmation
ProceedsAnyway(confirmed) == TRUE

\* if (!confirmed) return
Proceeds(confirmed) == confirmed

\* resolve(value): a pending promise takes the value, a settled one keeps its
\* own. publishFolder waits for the promise and resumes when it is settled:
\* it returns, or its loop calls quickPublishFile for the first file
Resolve(value, event) ==
  LET seen == [folder EXCEPT !.events = Append(@, event),
                             !.notice = IF event = "click" THEN "hidden" ELSE @]
  IN  IF folder.confirmed # "pending"
      THEN /\ folder' = seen
           /\ UNCHANGED <<tasks, nPublishes>>
      ELSE IF Proceeds(value)
      THEN /\ folder' = [seen EXCEPT !.confirmed = "true", !.pc = "await", !.index = 1]
           /\ tasks' = [tasks EXCEPT ![FolderTask] =
                                       Started(nPublishes + 1, folder.files[1])]
           /\ nPublishes' = nPublishes + 1
      ELSE /\ folder' = [seen EXCEPT !.confirmed = IF value THEN "true" ELSE "false",
                                     !.pc = "cancelled"]
           /\ UNCHANGED <<tasks, nPublishes>>

\* notice.noticeEl.onclick: a click on the notice while it is on screen
NoticeClick ==
  /\ folder.notice = "shown"
  /\ Resolve(TRUE, "click")
  /\ UNCHANGED <<vault, settings, calls, remoteTerms, nextPostId, nextTermId,
                 anyFailure, mdVars, codecVars, uiVars>>

\* setTimeout(() => resolve(false), 10000): the timer fires, once
ConfirmTimeout ==
  /\ folder.confirmed # "none"
  /\ \A i \in DOMAIN folder.events : folder.events[i] # "timeout"
  /\ Resolve(FALSE, "timeout")
  /\ UNCHANGED <<vault, settings, calls, remoteTerms, nextPostId, nextTermId,
                 anyFailure, mdVars, codecVars, uiVars>>

\* new Notice(..., 10000): the notice leaves the screen when its time is up
NoticeHides ==
  /\ folder.notice = "shown"
  /\ folder' = [folder EXCEPT !.notice = "hidden"]
  /\ UNCHANGED <<vault, settings, tasks, calls, remoteTerms, nextPostId, nextTermId,
                 nPublishes, anyFailure, mdVars, codecVars, uiVars>>

\* how the quick publish of a file ended
Outcome(task) ==
  IF task.pc = "threw" THEN "threw"
  ELSE IF ~task.result.settled THEN "no site"
  ELSE IF task.result.success THEN "published"
  ELSE "failed"

\* the awaited quickPublishFile is over: successCount++ when it returned,
\* failCount++ when it threw; then the next file, or the final notice
CountAndPublishNext ==
  /\ folder.pc = "await"
  /\ tasks[FolderTask].pc \in {"returned", "threw"}
  /\ LET task == tasks[FolderTask]
         counted ==
           [folder EXCEPT
              !.successCount = IF task.pc = "returned" THEN @ + 1 ELSE @,
              !.failCount = IF task.pc = "threw" THEN @ + 1 ELSE @,
              !.outcomes = Append(@, Outcome(task))]
     IN  IF folder.index < Len(folder.files)
         THEN /\ folder' = [counted EXCEPT !.index = @ + 1]
              /\ tasks' = [tasks EXCEPT ![FolderTask] =
                             Started(nPublishes + 1, folder.files[folder.index + 1])]
              /\ nPublishes' = nPublishes + 1
         ELSE /\ folder' = [counted EXCEPT !.pc = "done"]
              /\ UNCHANGED <<tasks, nPublishes>>
  /\ UNCHANGED <<vault, settings, calls, remoteTerms, nextPostId, nextTermId,
                 anyFailure, mdVars, codecVars, uiVars>>

NextFolder ==
  \/ PublishFolder
  \/ NoticeClick
  \/ ConfirmTimeout
  \/ NoticeHides
  \/ CountAndPublishNext
  \/ \E t \in Tasks : ReadNote(t)
  \/ \E t \in Tasks, ok \in BOOLEAN : GetCategories(t, ok)
  \/ \E t \in Tasks, ok \in BOOLEAN : CreateCategory(t, ok)
  \/ \E t \in Tasks, ok \in BOOLEAN : GetTags(t, ok)
  \/ \E t \in Tasks, ok \in BOOLEAN : CreateTag(t, ok)
  \/ \E t \in Tasks, answer \in Answers : CreatePost(t, answer)
  \/ \E t \in Tasks, answer \in Answers : UpdatePost(t, answer)
  \/ \E t \in Tasks : ReadNoteAgain(t)
  \/ \E t \in Tasks : ModifyNote(t)

SpecFolder == InitFolder /\ [][NextFolder]_vars

(***************************************************************************)
(* The settings tab: the Add Site button, and the Default Site toggle and  *)
(* the Remove button of every row shown.  The toggle and Remove handlers   *)
(* await saveSettings before they call display, so the rows on screen may  *)
(* be those of an earlier list.                                            *)
(***************************************************************************)
MaxSites == 3

MaxWaiting == 2

\* DEFAULT_SETTINGS
DefaultSettings ==
  [sites |-> <<>>, defaultPostType |-> <<"p", "o", "s", "t">>, convertMarkdown |-> TRUE,
   addFrontmatterOnPublish |-> TRUE]

InitSettings ==
  /\ settings = DefaultSettings
  /\ tab = NoTab
  /\ modal = NoModal
  /\ vault = <<>>
  /\ folder = NoFolder
  /\ tasks = <<>>
  /\ calls = <<>>
  /\ remoteTerms = {}
  /\ nextPostId = 0
  /\ nextTermId = 0
  /\ nPublishes = 0
  /\ anyFailure = FALSE
  /\ MdIdle
  /\ CodecIdle

\* display(): one row for each site of the list, each with its handlers
Rows(sites) == [i \in 1..Len(sites) |-> sites[i].id]

\* the toggle handler without its forEach
SetDefaultOnly(sites, site, value) ==
  [i \in 1..Len(sites) |->
     IF sites[i].id = site THEN [sites[i] EXCEPT !.isDefault = value] ELSE sites[i]]

\* sites.forEach(s => s.isDefault = false); site.isDefault = value
SetDefault(sites, site, value) ==
  [i \in 1..Len(sites) |-> [sites[i] EXCEPT !.isDefault = value /\ sites[i].id = site]]

\* sites.splice(index, 1), index counted from 0
splice(sites, index) ==
  IF index < Len(sites)
  THEN SubSeq(sites, 1, index) \o SubSeq(sites, index + 2, Len(sites))
  ELSE sites

\* Add Site: push, saveSettings (not awaited), display
AddSite ==
  /\ tab.nextSite <= MaxSites
  /\ settings' = [settings EXCEPT
                    !.sites = Append(@, [id |-> tab.nextSite, isDefault |-> Len(@) = 0])]
  /\ tab' = [tab EXCEPT !.shown = Rows(settings'.sites), !.nextSite = @ + 1]
  /\ UNCHANGED <<vault, folder, tasks, calls, remoteTerms, nextPostId, nextTermId,
                 nPublishes, anyFailure, modal, mdVars, codecVars>>

\* the Default Site toggle of a row shown, up to its await
ToggleDefault(row, value) ==
  /\ row \in DOMAIN tab.shown
  /\ tab.waiting < MaxWaiting
  /\ settings' = [settings EXCEPT !.sites = SetDefault(@, tab.shown[row], value)]
  /\ tab' = [tab EXCEPT !.waiting = @ + 1]
  /\ UNCHANGED <<vault, folder, tasks, calls, remoteTerms, nextPostId, nextTermId,
                 nPublishes, anyFailure, modal, mdVars, codecVars>>

\* the Remove button of a row shown, up to its await
RemoveSite(row) ==
  /\ row \in DOMAIN tab.shown
  /\ tab.waiting < MaxWaiting
  /\ settings' = [settings EXCEPT !.sites = splice(@, row - 1)]
  /\ tab' = [tab EXCEPT !.waiting = @ + 1]
  /\ UNCHANGED <<vault, folder, tasks, calls, remoteTerms, nextPostId, nextTermId,
                 nPublishes, anyFailure, modal, mdVars, codecVars>>

\* saveSettings is over for one of the handlers that wait: display
Display ==
  /\ tab.waiting > 0
  /\ tab' = [tab EXCEPT !.shown = Rows(settings.sites), !.waiting = @ - 1]
  /\ UNCHANGED <<settings, vault, folder, tasks, calls, remoteTerms, nextPostId,
                 nextTermId, nPublishes, anyFailure, modal, mdVars, codecVars>>

NextSettings ==
  \/ AddSite
  \/ \E row \in 1..MaxSites, value \in BOOLEAN : ToggleDefault(row, value)
  \/ \E row \in 1..MaxSites : RemoveSite(row)
  \/ Display

SpecSettings == InitSettings /\ [][NextSettings]_vars

(***************************************************************************)
(* The publish modal of one note: opened by publishFile, its Publish       *)
(* button calls publish(), which awaits publishNote.  The note is written  *)
(* only by a publish that succeeds, and that publish closes the modal, so  *)
(* the text the modal was built with is the text of the note whenever its  *)
(* button is clicked; the options are left as the modal built them.        *)
(***************************************************************************)
MaxClicks == 3

InitModal ==
  /\ vault \in {<<note>> : note \in FolderNotes}
  /\ folder = NoFolder
  /\ settings \in SettingsChoices
  /\ tasks = [t \in Tasks |-> IdleTask]
  /\ calls = <<>>
  /\ remoteTerms = InitialTerms
  /\ nextPostId = 1
  /\ nextTermId = 3
  /\ nPublishes = 0
  /\ anyFailure = FALSE
  /\ MdIdle
  /\ CodecIdle
  /\ UiIdle

\* publishFile: the note is read, the modal built and opened; without a site
\* onOpen shows no Publish button
PublishFile(f) ==
  /\ modal.pc = "none"
  /\ modal' = [NoModal EXCEPT !.file = f,
                              !.pc = IF Len(settings.sites) = 0 THEN "no site" ELSE "open"]
  /\ UNCHANGED <<publishVars, tab, mdVars, codecVars>>

\* a guard that lets every call through
BusyNever(m) == FALSE

\* if (this.isPublishing) return
Busy(m) == m.isPublishing

\* a click on the Publish button: publish() up to its await; publishNote
\* runs in the first free place among the tasks
Publish ==
  /\ modal.pc = "open"
  /\ modal.clicks < MaxClicks
  /\ \E t \in Tasks : Free(t)
  /\ IF Busy(modal)
     THEN /\ modal' = [modal EXCEPT !.clicks = @ + 1, !.ignored = @ + 1]
          /\ UNCHANGED <<tasks, nPublishes>>
     ELSE LET t == CHOOSE u \in Tasks : Free(u) /\ \A v \in 1..(u - 1) : ~Free(v)
          IN  /\ modal' = [modal EXCEPT !.clicks = @ + 1, !.isPublishing = TRUE,
                                        !.awaits = @ \cup {t}]
              /\ tasks' = [tasks EXCEPT ![t] = [IdleTask EXCEPT !.publish = nPublishes + 1,
                                                                !.file = modal.file,
                                                                !.pc = "read"]]
              /\ nPublishes' = nPublishes + 1
  /\ UNCHANGED <<vault, folder, settings, calls, remoteTerms, nextPostId, nextTermId,
                 anyFailure, tab, mdVars, codecVars>>

\* the Cancel button: close()
CloseModal ==
  /\ modal.pc = "open"
  /\ modal' = [modal EXCEPT !.pc = "closed"]
  /\ UNCHANGED <<publishVars, tab, mdVars, codecVars>>

\* the publishNote call that publish() awaits is over: the modal closes on a
\* successful result, and isPublishing is reset on every way out of the try
PublishResumes(t) ==
  /\ t \in modal.awaits
  /\ tasks[t].pc \in {"returned", "threw"}
  /\ modal' = [modal EXCEPT
                 !.isPublishing = FALSE,
                 !.awaits = @ \ {t},
                 !.pc = IF tasks[t].pc = "returned" /\ tasks[t].result.success
                        THEN "closed" ELSE @]
  /\ UNCHANGED <<publishVars, tab, mdVars, codecVars>>

NextModal ==
  \/ \E f \in DOMAIN vault : PublishFile(f)
  \/ Publish
  \/ CloseModal
  \/ \E t \in Tasks : PublishResumes(t)
  \/ \E t \in Tasks : ReadNote(t)
  \/ \E t \in Tasks, ok \in BOOLEAN : GetCategories(t, ok)
  \/ \E t \in Tasks, ok \in BOOLEAN : CreateCategory(t, ok)
  \/ \E t \in Tasks, ok \in BOOLEAN : GetTags(t, ok)
  \/ \E t \in Tasks, ok \in BOOLEAN : CreateTag(t, ok)
  \/ \E t \in Tasks, answer \in Answers : CreatePost(t, answer)
  \/ \E t \in Tasks, answer \in Answers : UpdatePost(t, answer)
  \/ \E t \in Tasks : ReadNoteAgain(t)
  \/ \E t \in Tasks : ModifyNote(t)

\* the continuation of an await runs once the awaited call is over
SpecModal ==
  InitModal /\ [][NextModal]_vars /\ WF_vars(\E t \in Tasks : PublishResumes(t))

(***************************************************************************)
(* Properties of the Markdown transducer.                                  *)
(***************************************************************************)
Contains(s, lit) == FindLit(s, 1, lit) > 0

Count(s, lit) == Cardinality({i \in 1..Len(s) : StartsAt(s, i, lit)})

\* the element a fenced block is to become
FenceHtml(f) ==
  <<"<", "p", "r", "e", ">", "<", "c", "o", "d", "e">>
    \o (IF f.lang = <<>> THEN <<>> ELSE <<" ", "c", "l", "a", "s", "s", "=", "\"", "l", "a", "n", "g", "u", "a", "g", "e", "-">> \o f.lang \o <<"\"">>)
    \o <<">">> \o escapeHtml(f.code) \o <<"<", "/", "c", "o", "d", "e", ">", "<", "/", "p", "r", "e", ">">>

\* C7: code fence escaping. Every fenced block of the input comes out as a
\* pre/code element holding its content HTML-escaped, with the class
\* language-<tag> when a tag is given and no class otherwise.
C7_FenceEscaped ==
  mdDone =>
    \A f \in FenceCases : Contains(markdown, Fence(f)) => Contains(html, FenceHtml(f))

ImageHtml(l) == <<"<", "i", "m", "g", " ", "s", "r", "c", "=", "\"">> \o l.url \o <<"\"", " ", "a", "l", "t", "=", "\"">> \o l.text \o <<"\"", ">">>

LinkHtml(l) == <<"<", "a", " ", "h", "r", "e", "f", "=", "\"">> \o l.url \o <<"\"", ">">> \o l.text \o <<"<", "/", "a", ">">>

\* C8: images and links. A text that is an image, with any alt text, becomes
\* an img element and no anchor; a text that is a link becomes an anchor.
C8_ImageNotLink ==
  mdDone =>
    /\ \A l \in ImageCases :
         markdown = Image(l) => Contains(html, ImageHtml(l)) /\ ~Contains(html, <<"<", "a", " ">>)
    /\ \A l \in LinkCases : markdown = Link(l) => Contains(html, LinkHtml(l))

\* C9: horizontal rules. A line of three or more of one character among
\* - * _ becomes a rule element, for each of the three characters; a line
\* mixing them does not.
C9_RuleLines ==
  mdDone =>
    /\ markdown \in UniformRules => html = <<"<", "h", "r", ">">>
    /\ markdown \in MixedRules => ~Contains(html, <<"<", "h", "r", ">">>)

\* an unordered item line: - or *, whitespace, text
IsItemLine(line) ==
  /\ Len(line) >= 3
  /\ line[1] \in {"-", "*"}
  /\ line[2] = " "
  /\ line[3] # " "

AllItemLines(s) ==
  s # <<>> /\ \A i \in 1..Len(SplitLines(s)) : IsItemLine(SplitLines(s)[i])

\* C10: list wrapping. A text made of n unordered item lines becomes one list
\* element with n items, and no list tag is ever wrapped in a paragraph.
C10_OneListPerRun ==
  mdDone =>
    /\ AllItemLines(markdown) =>
         /\ Count(html, <<"<", "u", "l", ">">>) = 1
         /\ Count(html, <<"<", "/", "u", "l", ">">>) = 1
         /\ Count(html, <<"<", "l", "i", ">">>) = Len(SplitLines(markdown))
    /\ ~Contains(html, <<"<", "p", ">", "<", "u", "l", ">">>)
    /\ ~Contains(html, <<"<", "p", ">", "<", "/", "u", "l", ">">>)

\* the ordered item of the inputs, and the element it is to become
OrderedItem == <<"1", ".", " ", "n">>

OrderedItemHtml == <<"<", "l", "i", ">", "n", "<", "/", "l", "i", ">">>

\* position p of the text lies inside a ul element
InsideUl(s, p) ==
  Cardinality({i \in 1..(p - 1) : StartsAt(s, i, <<"<", "u", "l", ">">>)})
    > Cardinality({i \in 1..(p - 1) : StartsAt(s, i, <<"<", "/", "u", "l", ">">>)})

\* C22: ordered lists are not wrapped. Every line "1. n" of the input comes
\* out as the element <li>n</li>; the output has no ol tag, and no such
\* element lies inside a ul element.
C22_OrderedNotWrapped ==
  mdDone =>
    LET lines == SplitLines(markdown)
    IN  /\ Count(html, OrderedItemHtml)
             = Cardinality({i \in 1..Len(lines) : lines[i] = OrderedItem})
        /\ ~Contains(html, <<"<", "o", "l">>)
        /\ \A p \in 1..Len(html) : StartsAt(html, p, OrderedItemHtml) => ~InsideUl(html, p)

\* C23: clean-up. The text markdownToHtml returns has no whitespace at its
\* start or end, no run of three or more newlines, and no empty paragraph
\* element.
C23_Cleanup ==
  mdDone =>
    /\ html # <<>> => html[1] \notin Whitespace /\ html[Len(html)] \notin Whitespace
    /\ ~Contains(html, <<NL, NL, NL>>)
    /\ ~Contains(html, <<"<", "p", ">", "<", "/", "p", ">">>)

\* the element a span is to become
EmphasisHtml(e) ==
  CASE e.n = 3 -> <<"<", "s", "t", "r", "o", "n", "g", ">", "<", "e", "m", ">">> \o e.text \o <<"<", "/", "e", "m", ">", "<", "/", "s", "t", "r", "o", "n", "g", ">">>
    [] e.n = 2 -> <<"<", "s", "t", "r", "o", "n", "g", ">">> \o e.text \o <<"<", "/", "s", "t", "r", "o", "n", "g", ">">>
    [] e.n = 1 -> <<"<", "e", "m", ">">> \o e.text \o <<"<", "/", "e", "m", ">">>

\* the spans that line holds
SpansOf(line) == {l \in SpanLines : SpanLine(l) = line}

\* C11: emphasis precedence. Every line that holds a span of one, two or
\* three * or _ comes out as a line that holds the element of that span
\* (em, strong, strong around em) between the words around it, and no
\* marker character is left on it.
C11_EmphasisPrecedence ==
  mdDone =>
    LET lines == SplitLines(markdown)
        out == SplitLines(html)
    IN  /\ Len(out) = Len(lines)
        /\ \A i \in 1..Len(lines) : \A l \in SpansOf(lines[i]) :
             /\ Contains(out[i], l.pre \o EmphasisHtml(l.e) \o l.post)
             /\ \A k \in 1..Len(out[i]) : out[i][k] \notin {"*", "_"}

\* a text with a triple-marker span between words has been converted
C11_Witness ==
  /\ mdDone
  /\ Contains(markdown, <<"a", " ", "*", "*", "*", "e", "*", "*", "*", " ", "b">>)
  /\ Contains(html, <<"a", " ", "<", "s", "t", "r", "o", "n", "g", ">", "<", "e", "m", ">", "e", "<", "/", "e", "m", ">", "<", "/", "s", "t", "r", "o", "n", "g", ">", " ", "b">>)

\* the number of # characters that line starts with
LeadingHashes(line) == SkipSet(line, 1, {"#"}) - 1

\* a header line: one to six #, a space, text
IsHeaderLine(line) ==
  LET k == LeadingHashes(line)
  IN  /\ k \in 1..6
      /\ k + 1 <= Len(line)
      /\ line[k + 1] = " "
      /\ SkipSet(line, k + 1, {" "}) <= Len(line)

\* the element a header line is to become
HeaderHtml(line) ==
  LET k == LeadingHashes(line)
  IN  <<"<", "h", DigitChar(k), ">">>
        \o SubSeq(line, SkipSet(line, k + 1, {" "}), Len(line))
        \o <<"<", "/", "h", DigitChar(k), ">">>

\* C12: headers. A line of k # (k from 1 to 6), a space and text becomes the
\* element hk holding the text; a text none of whose lines is such a line
\* (seven # or more, no space after the #) yields no header element.
C12_HeaderLevels ==
  mdDone =>
    LET lines == SplitLines(markdown)
    IN  /\ \A i \in 1..Len(lines) :
             IsHeaderLine(lines[i]) => Contains(html, HeaderHtml(lines[i]))
        /\ (\A i \in 1..Len(lines) : ~IsHeaderLine(lines[i]))
             => \A k \in 1..6 : ~Contains(html, <<"<", "h", DigitChar(k), ">">>)

\* lines that no pass before the paragraph pass rewrites: a word, an opening
\* tag, a closing tag, an upper-case tag, a bare <
ParagraphCases == {<<"a">>, <<"<", "d", "i", "v", ">">>, <<"<", "/", "p", ">">>, <<"<", "B", ">">>, <<"<">>}

\* what the paragraph pass is to make of such a line
Wrapped(line) == IF line[1] = "<" THEN line ELSE <<"<", "p", ">">> \o line \o <<"<", "/", "p", ">">>

\* C13: paragraph wrapping. Of the lines the earlier passes leave alone, a
\* line is wrapped in a paragraph element when it does not start with <, and
\* comes out unchanged when it starts with <.
C13_ParagraphWrap ==
  mdDone =>
    LET lines == SplitLines(markdown)
    IN  (\A i \in 1..Len(lines) : lines[i] \in ParagraphCases)
          => html = JoinLines([i \in 1..Len(lines) |-> Wrapped(lines[i])])

(***************************************************************************)
(* Properties of the frontmatter codec.                                    *)
(***************************************************************************)
LastApplied == applied[Len(applied)]

HasBlock(t) == MatchFrontmatter(t).ok

\* the values the round trip is stated for: booleans, numbers, strings
\* without a colon, lists of strings
PlainValue(v) ==
  \/ v.t \in {"boolean", "number", "array"}
  \/ v.t = "string" /\ \A i \in 1..Len(v.s) : v.s[i] # ":"

PlainMap(map) == \A i \in 1..Len(map) : PlainValue(map[i].v)

\* C1: round trip. When a map of booleans, numbers, colon-free strings and
\* lists of strings is serialized in front of a body (a text without a block
\* of its own), extractContent gives back a map equal to it and the body.
C1_RoundTrip ==
  (/\ extracted
   /\ applied # <<>>
   /\ ~HasBlock(LastApplied.before)
   /\ PlainMap(LastApplied.updates))
    => /\ parsed.frontmatter = LastApplied.updates
       /\ parsed.content = LastApplied.before

\* C2: body preservation. After updateFrontmatter(text, U), for every text
\* and every U, the empty map included, extractContent gives the content it
\* gave for the text before.
C2_BodyPreserved ==
  (extracted /\ applied # <<>>)
    => parsed.content = extractContent(LastApplied.before).content

DisjointKeys(m1, m2) == Keys(m1) \cap Keys(m2) = {}

\* C3: merge composition. Two updates with disjoint key sets, one after the
\* other, leave the same text as one update with the spread of both.
C3_MergeComposition ==
  (Len(applied) = 2 /\ DisjointKeys(applied[1].updates, applied[2].updates))
    => text = updateFrontmatter(applied[1].before,
                                Spread(applied[1].updates, applied[2].updates))

\* the lines of the block of a text
BlockLines(t) ==
  IF HasBlock(t) THEN SplitLines(MatchFrontmatter(t).block) ELSE <<>>

IsKeyLine(line) == KeyValueMatch(line).ok

\* line i declares its key with an empty value, no list-item line follows it
\* before the next key line or the end of the block, and no later line
\* declares the same key again
DeclaredEmpty(lines, i) ==
  LET nextKey == First(i + 1, Len(lines), [j \in (i + 1)..Len(lines) |-> IsKeyLine(lines[j])])
  IN  /\ IsKeyLine(lines[i])
      /\ trim(KeyValueMatch(lines[i]).value) = <<>>
      /\ \A j \in (i + 1)..(nextKey - 1) : ~ArrayItemMatch(lines[j]).ok
      /\ \A j \in (i + 1)..Len(lines) :
           ~(IsKeyLine(lines[j]) /\ KeyValueMatch(lines[j]).key = KeyValueMatch(lines[i]).key)

EmptyDeclaredKeys(t) ==
  LET lines == BlockLines(t)
  IN  {KeyValueMatch(lines[i]).key : i \in {j \in 1..Len(lines) : DeclaredEmpty(lines, j)}}

AbsentOrMalformed(t) ==
  \A i \in 1..Len(BlockLines(t)) : ~IsKeyLine(BlockLines(t)[i])

\* C14: absent or malformed metadata. For a text without a block, or with a
\* block none of whose lines is a valid entry, extractContent returns the
\* empty map and the whole text, unchanged, as the content.
C14_MalformedIsBody ==
  (extracted /\ AbsentOrMalformed(text))
    => parsed = [content |-> text, frontmatter |-> EmptyMap]

\* the entry is replaced where it stands, or added after the last one
PutLast(map, key, value) ==
  IF key \in Keys(map)
  THEN [i \in 1..Len(map) |-> IF map[i].k = key THEN [k |-> key, v |-> value] ELSE map[i]]
  ELSE Append(map, [k |-> key, v |-> value])

\* the overlay in insertion order: the keys of map in their order, then the
\* new keys of updates in the order of updates, the values of updates winning
RECURSIVE Overlay(_, _)
Overlay(map, updates) ==
  IF updates = <<>> THEN map
  ELSE Overlay(PutLast(map, updates[1].k, updates[1].v), Tail(updates))

\* C15: merge overlay and order. The text updateFrontmatter(text, U) returns
\* is a block with one entry per key of the existing metadata or of U, the
\* existing keys first in their order, then the new keys of U in the order
\* of U, a key of both carrying the value of U, followed by the content of
\* the text; keys made of digits are no exception.
C15_MergeOrder ==
  applied # <<>> =>
    LET before == extractContent(LastApplied.before)
    IN  text = <<"-", "-", "-", "\n">>
                 \o FrontmatterLines(Overlay(before.frontmatter, LastApplied.updates))
                 \o <<"-", "-", "-", "\n">> \o before.content

\* line i is the last line of the block to declare its key, and declares it
\* with a value
DeclaredScalar(lines, i) ==
  /\ IsKeyLine(lines[i])
  /\ trim(KeyValueMatch(lines[i]).value) # <<>>
  /\ \A j \in (i + 1)..Len(lines) :
       ~(IsKeyLine(lines[j]) /\ KeyValueMatch(lines[j]).key = KeyValueMatch(lines[i]).key)

\* the value without its quotes when it stands between two quotes of one
\* kind, the value as it is otherwise
StripMatching(value) ==
  IF Len(value) >= 2 /\ value[1] \in {"\"", "'"} /\ value[Len(value)] = value[1]
  THEN SubSeq(value, 2, Len(value) - 1)
  ELSE value

\* the type and value the stated precedence gives a scalar
Coerced(value) ==
  IF value \in {<<"t", "r", "u", "e">>, <<"f", "a", "l", "s", "e">>} THEN Bool(value = <<"t", "r", "u", "e">>)
  ELSE IF IsNumeric(value) THEN Num(ToNumber(value))
  ELSE Str(StripMatching(value))

\* C16: type coercion. Every key declared with a non-empty value is mapped
\* to a boolean for true and false, else to a number for a numeral, else to
\* the string itself, less one pair of matching surrounding quotes.
C16_CoercionOrder ==
  extracted =>
    LET lines == BlockLines(text)
    IN  \A i \in 1..Len(lines) :
          DeclaredScalar(lines, i) =>
            LET kv == KeyValueMatch(lines[i])
            IN  /\ kv.key \in Keys(parsed.frontmatter)
                /\ Get(parsed.frontmatter, kv.key) = Coerced(trim(kv.value))

HasColon(v) == v.t = "string" /\ \E i \in 1..Len(v.s) : v.s[i] = ":"

\* the items of the list-item lines among lines from..to, in order
ItemsOf(lines, from, to) ==
  LET IsItem(line) == ArrayItemMatch(line).ok
      found == SelectSeq(SubSeq(lines, from, to), IsItem)
  IN  [j \in 1..Len(found) |-> ArrayItemMatch(found[j]).item]

\* line i is the last key line of the block that declares its key
LastDeclaration(lines, i) ==
  /\ IsKeyLine(lines[i])
  /\ \A j \in (i + 1)..Len(lines) :
       ~(IsKeyLine(lines[j]) /\ KeyValueMatch(lines[j]).key = KeyValueMatch(lines[i]).key)

\* C21: list parsing. In the map extractContent returns, a key whose (last)
\* key line has an empty value holds the list of the items of the list-item
\* lines between that key line and the next key line or the end of the
\* block, in order; a key whose key line has a scalar value holds no list,
\* whatever list-item lines follow it.
C21_ListParsing ==
  extracted /\ HasBlock(text) =>
    LET lines == BlockLines(text)
    IN  \A i \in 1..Len(lines) :
          LastDeclaration(lines, i) =>
            LET kv == KeyValueMatch(lines[i])
                nextKey == First(i + 1, Len(lines),
                                 [j \in (i + 1)..Len(lines) |-> IsKeyLine(lines[j])])
            IN  /\ kv.key \in Keys(parsed.frontmatter)
                /\ IF trim(kv.value) = <<>>
                   THEN Get(parsed.frontmatter, kv.key)
                          = List(ItemsOf(lines, i + 1, nextKey - 1))
                   ELSE Get(parsed.frontmatter, kv.key).t # "array"

Creates == {i \in DOMAIN calls : calls[i].kind = "create"}

UpdatesOf == {i \in DOMAIN calls : calls[i].kind = "update"}

\* C4: repeated publishes update rather than duplicate. With the frontmatter
\* update on and a remote site that has answered every request successfully,
\* only the first publish of the note may call createPost, every later one
\* calls updatePost, and all updatePost calls carry one identifier, however
\* the steps of the quick publishes interleave.
C4_NoDuplicatePost ==
  (settings.addFrontmatterOnPublish /\ ~anyFailure)
    => /\ Cardinality(Creates) <= 1
       /\ \A i \in DOMAIN calls : i > 1 => calls[i].kind = "update"
       /\ \A i, j \in UpdatesOf : calls[i].id = calls[j].id

\* the publishes that have reached the decision of publishNote
Decided ==
  {tasks[t].publish :
     t \in {u \in Tasks : \/ tasks[u].pc \in {"createPost", "updatePost", "reread", "modify"}
                          \/ tasks[u].result.settled}}

CallsOf(p) == {i \in DOMAIN calls : calls[i].publish = p}

\* the stored identifier is a number greater than 0
StoredIdOf(frontmatter) ==
  IF /\ <<"w", "p", "_", "p", "o", "s", "t", "_", "i", "d">> \in Keys(frontmatter)
     /\ Get(frontmatter, <<"w", "p", "_", "p", "o", "s", "t", "_", "i", "d">>).t = "number"
     /\ Get(frontmatter, <<"w", "p", "_", "p", "o", "s", "t", "_", "i", "d">>).n > 0
  THEN Get(frontmatter, <<"w", "p", "_", "p", "o", "s", "t", "_", "i", "d">>).n
  ELSE 0

Writes(t) == tasks[t].pc = "modify" /\ tasks'[t].pc # "modify"

\* the step is the return of the publishNote call in place t
ReturnsFromPublishNote(t) ==
  tasks[t].pc \in {"createPost", "updatePost", "modify"} /\ tasks'[t].pc = "returned"

\* the three keys of a publish whose remote identifier is the number n
WrittenKeys(n) ==
  Entry(<<"w", "p", "_", "p", "o", "s", "t", "_", "i", "d">>, Num(n))
    \o Entry(<<"w", "p", "_", "p", "o", "s", "t", "_", "u", "r", "l">>, Str(PostLink(n)))
    \o Entry(<<"w", "p", "_", "l", "a", "s", "t", "_", "p", "u", "b", "l", "i", "s", "h", "e", "d">>, Str(Today))

\* C18: write-back only after success. A publishNote call writes the note at
\* most once, as its last step, and only after the remote call succeeded
\* with the frontmatter update on; the text written is the current text of
\* the note overlaid with wp_post_id (a number), wp_post_url and
\* wp_last_published; a successful call with the update on does not return
\* without that write, and no other step changes a note.
C18_WriteBackOnSuccess ==
  [][/\ \A t \in Tasks :
          Writes(t) =>
            /\ tasks[t].result.settled /\ tasks[t].result.success
            /\ settings.addFrontmatterOnPublish
            /\ tasks'[t].pc = "returned"
            /\ tasks[t].result.postId.t = "number"
            /\ vault'[tasks[t].file] =
                 updateFrontmatter(vault[tasks[t].file],
                                   WrittenKeys(tasks[t].result.postId.n))
     /\ \A t \in Tasks :
          (/\ ReturnsFromPublishNote(t)
           /\ tasks'[t].result.success
           /\ settings.addFrontmatterOnPublish) => Writes(t)
     /\ vault' # vault => \E t \in Tasks : Writes(t)]_vars

\* the names the frontmatter gives under a key, as publishNote iterates them
NamesUnder(frontmatter, key) == Names(OrElse(Lookup(frontmatter, key), List(<<>>)))

\* ids are identifiers of remote terms of that kind that carry, in order,
\* names taken from the list
ResolvedInOrder(ids, kind, names) ==
  \E f \in [1..Len(ids) -> 1..Len(names)] :
    /\ \A i, j \in 1..Len(ids) : i < j => f[i] < f[j]
    /\ \A i \in 1..Len(ids) :
         \E term \in remoteTerms :
           /\ term.kind = kind
           /\ term.id = ids[i]
           /\ toLowerCase(term.name) = toLowerCase(names[f[i]])

C19_BulkCounts ==
  folder.pc = "done" =>
    /\ Len(folder.outcomes) = Len(folder.files)
    /\ folder.successCount + folder.failCount = Len(folder.files)
    /\ folder.failCount =
         Cardinality({i \in DOMAIN folder.outcomes : folder.outcomes[i] # "published"})

DefaultSites == {i \in 1..Len(settings.sites) : settings.sites[i].isDefault}

\* C24: single default site. Whatever the Add Site, Remove and Default Site
\* handlers have done to the list, at most one site of the list is the
\* default.
C24_SingleDefault == Cardinality(DefaultSites) <= 1

\* the toggle has made a site other than the first of the list the default
C24_Witness ==
  \E i \in DefaultSites : i > 1

\* the publishNote calls of the modal that are not over
InFlight == {t \in modal.awaits : tasks[t].pc \notin {"returned", "threw"}}

\* a click on the Publish button
Clicked == modal'.clicks = modal.clicks + 1

\* C25: re-entrancy guard of the publish modal. At most one publishNote call
\* of the modal is in flight at any time; a click that finds isPublishing set
\* starts no publishNote call; and once the call in flight is over, with a
\* successful result, a failed one or an exception, isPublishing is reset.
C25_ReentrancyGuard ==
  /\ [](Cardinality(InFlight) <= 1)
  /\ [][Clicked /\ modal.isPublishing
          => UNCHANGED <<tasks, nPublishes, calls>> /\ modal'.isPublishing]_vars
  /\ \A t \in Tasks :
       (t \in modal.awaits /\ tasks[t].pc \in {"returned", "threw"}) ~> ~modal.isPublishing

\* a click was ignored while a call was in flight, and the flag has been
\* reset after a call that threw
C25_Witness ==
  /\ modal.ignored > 0
  /\ ~modal.isPublishing
  /\ \E t \in Tasks : tasks[t].pc = "threw"

\* the first thing that happened to the confirmation: "click", "timeout",
\* or "none" while neither has happened
FirstEvent == IF folder.events = <<>> THEN "none" ELSE folder.events[1]

\* C26: bulk publish is gated on confirmation. A file is published only when
\* the notice was clicked before the timer fired; the promise keeps the value
\* of whichever came first, so a timer that fires after the click does not
\* stop the publishing and a click after the timer starts none; a folder
\* without markdown files shows no notice and publishes nothing.
C26_GatedOnConfirmation ==
  /\ nPublishes > 0 => FirstEvent = "click"
  /\ FirstEvent = "click" => folder.confirmed = "true" /\ folder.pc \in {"await", "done"}
  /\ FirstEvent = "timeout" =>
       folder.confirmed = "false" /\ folder.pc = "cancelled" /\ nPublishes = 0
  /\ (folder.pc # "idle" /\ vault = <<>>) =>
       /\ folder.pc = "empty"
       /\ folder.notice = "none"
       /\ folder.events = <<>>
       /\ nPublishes = 0

\* the timer fired after the click, and the folder was published to the end
C26_Witness ==
  /\ folder.events = <<"click", "timeout">>
  /\ folder.pc = "done"
  /\ folder.successCount = Len(folder.files)

====
